---- MODULE Spec2Model ----
(***************************************************************************)
(* Model of the Ornitela telemetry ingestion code                          *)
(* (app/actions/handlers.py).                                              *)
(*                                                                         *)
(* _process_csv_file_streaming is modelled line by line.  A line of the    *)
(* file is abstracted to the two things the code looks at:                 *)
(*   first    - the text of the first field; "" stands for a line that is  *)
(*              empty after strip(), "device_id" for a line for which      *)
(*              line.startswith("device_id") holds;                        *)
(*   datatype - the value row_data.get("datatype", "") obtains for the     *)
(*              line, as the sequence of its "_"-separated tokens          *)
(*              ("SEN_ALL_20Hz_START" is <<"SEN","ALL","20Hz","START">>,   *)
(*              "" is <<>>).                                               *)
(* The header (first terminated line) is taken to have a datatype column.  *)
(* Parsed rows are identified by the number of the data line they come     *)
(* from, so that two rows with equal content remain distinguishable.       *)
(***************************************************************************)
EXTENDS Integers, Sequences, FiniteSets, TLC

VARIABLES
    pc,                    \* position in _process_csv_file_streaming
    csv_reader,            \* "None" until the header line has been read
    lines,                 \* history: the data lines handed to the code so far
    flushed,               \* history: the last of lines came from the unterminated remainder
    telemetry_data,        \* the groups appended so far
    current_gps_location,  \* the fix being collected for, or None
    sensor_readings,       \* samples collected for the current fix
    in_sensor_sequence     \* burst-open flag

\* Field-level view of the same function (the zip of a line with the header).
VARIABLES
    raw                    \* history: the field lists of the data lines read

\* generate_gundi_observations and the consumer that pulls from it.
VARIABLES
    gen_pc,                \* "start", "running", "suspended", "exhausted", "raised", "closed"
    gen_at,                \* the loop header the generator executes next
    cutoff_time,           \* cutoff_time, in units of 500 ms
    observation,           \* the group of the current iteration of the outer loop
    gen_i,                 \* number of groups read from telemetry_data
    gen_j,                 \* number of sensor readings of observation read
    emitted,               \* history: the events yielded from observation
    owed                   \* history: next() calls minus events yielded

\* The chunk loop of _process_csv_file_streaming (detection and decoding).
VARIABLES
    dec_pc,                \* "stream", "returned", "raised"
    detected_encoding,     \* "None" or the codec chosen
    detect_calls,          \* history: number of calls of _detect_encoding
    chunks,                \* history: the chunks received
    dec_buffer,            \* buffer: decoded text not yet ended by a newline
    out_lines              \* the complete lines split off the buffer

\* The stages of action_process_ornitela_file for one file.
VARIABLES
    file_pc,               \* "streaming", "sending", "archiving", "done"
    unread,                \* byte chunks of the file not yet read
    parsed,                \* groups in telemetry_data
    pending,               \* events the generator has still to yield
    batches_sent,          \* batches handed to send_observations_to_gundi
    observations_sent      \* observations_sent

groupVars == <<pc, csv_reader, lines, flushed, telemetry_data,
               current_gps_location, sensor_readings, in_sensor_sequence>>
genVars   == <<gen_pc, gen_at, cutoff_time, observation, gen_i, gen_j,
               emitted, owed>>
decVars   == <<dec_pc, detected_encoding, detect_calls, chunks, dec_buffer,
               out_lines>>
fileVars  == <<file_pc, unread, parsed, pending, batches_sent,
               observations_sent>>

\* One invocation of action_process_ornitela_file with its collaborators;
\* its stage is file_pc and its counts are the variables above.
VARIABLES
    act_file_name,         \* action_config.file_name, as its dot-separated parts
    act_lock,              \* the lock key: "free", "mine" or "other"
    act_acquired,          \* acquire_lock returned True
    act_faults,            \* history: the collaborators that have failed
    act_ops,               \* history: the storage operations carried out
    act_result             \* the dictionary returned

\* Concurrent invocations and the lock key of one file.
VARIABLES
    lk_pc,                 \* per invocation: "idle", "processing", "finishing", "crashed"
    lk_owner,              \* 0 when the key is absent, else who set it
    lk_ttl                 \* time left until the key expires

\* One run of action_process_new_files.
VARIABLES
    nf_pc,                 \* "start", "classify", "trigger", "set_state", "returned"
    processed_files,       \* state["processed_files"] as persisted
    file_list,             \* the names listed
    nf_i,                  \* position of the running for loop
    new_files,             \* new_files
    nf_attempted,          \* history: names trigger_action was called for
    nf_triggered,          \* history: names trigger_action succeeded for
    nf_written,            \* history: the states written by set_state
    nf_result              \* the dictionary returned

\* Successive runs of action_process_new_files and the single-file actions
\* they trigger.
VARIABLES
    nf_run,                \* number of the run (1 for the first)
    nf_queue,              \* the triggered single-file actions not yet run
    nf_delivered,          \* history: files whose events were all delivered
    nf_ops                 \* history: the storage calls of the run

\* One file of the bucket over the days.
VARIABLES
    bucket,                \* which blobs of the file exist, and its age in days
    bk_config,             \* archive_days and delete_after_archive_days
    bk_last_run            \* history: the day of the last scheduled run

\* Two calls of a function on the same input.
VARIABLES
    tw_call,               \* 1 or 2: the call that runs
    tw_input,              \* the input of both calls
    tw_out,                \* what the consumer of the call has received
    tw_first               \* the outcome of the first call

actVars  == <<act_file_name, act_lock, act_acquired, act_faults, act_ops,
              act_result>>
lockVars == <<lk_pc, lk_owner, lk_ttl>>
nfVars   == <<nf_pc, processed_files, file_list, nf_i, new_files,
              nf_attempted, nf_triggered, nf_written, nf_result>>

runVars    == <<nf_run, nf_queue, nf_delivered, nf_ops>>
bucketVars == <<bucket, bk_config, bk_last_run>>
twiceVars  == <<tw_call, tw_input, tw_out, tw_first>>
moreVars   == <<runVars, bucketVars, twiceVars>>

vars == <<groupVars, raw, genVars, decVars, fileVars, actVars, lockVars,
          nfVars, moreVars>>

\* Largest number of data lines (after the header) of a modelled file.
MaxRows == 5

----------------------------------------------------------------------------
\* Datatype tags, as token sequences.
GPS      == <<"GPS">>
GPSS     == <<"GPSS">>
SenStart == <<"SEN", "ALL", "20Hz", "START">>
SenData  == <<"SEN", "ALL", "20Hz">>
SenEnd   == <<"SEN", "ALL", "20Hz", "END">>
GpsRaw   == <<"GPS", "RAW">>
HdrTag   == <<"datatype">>
NoTag    == <<>>

\* The lines a modelled file is made of.
DataLine ==
    { [first |-> "226976", datatype |-> t] :
          t \in {GPS, GPSS, SenStart, SenData, SenEnd, GpsRaw} }
HeaderEcho   == [first |-> "device_id", datatype |-> HdrTag]
HeaderGps    == [first |-> "device_id", datatype |-> GPSS]
BlankLine    == [first |-> "", datatype |-> NoTag]
Line == DataLine \cup {HeaderEcho, HeaderGps, BlankLine}

\* Python's None for current_gps_location.
None == [row |-> 0, datatype |-> NoTag]

----------------------------------------------------------------------------
\* line.strip() is non-empty
Strip(line) == line.first # ""

\* line.startswith("device_id")
StartsWithDeviceId(line) == line.first = "device_id"

\* Variant: only the GPSS tag is taken for a fix.
IsGpsDatatype_OnlyGPSS(datatype) == datatype = <<"GPSS">>

\* datatype in ["GPS", "GPSS"]
IsGpsDatatype(datatype) == datatype \in {<<"GPS">>, <<"GPSS">>}

\* datatype.startswith("SEN_")
StartsWithSen(datatype) == Len(datatype) >= 2 /\ datatype[1] = "SEN"

\* datatype.endswith("_START")
EndsWithStart(datatype) == Len(datatype) >= 2 /\ datatype[Len(datatype)] = "START"

\* Variant: the burst-end suffix is spelled differently.
EndsWithEnd_WrongSuffix(datatype) ==
    Len(datatype) >= 2 /\ datatype[Len(datatype)] = "STOP"

\* datatype.endswith("_END")
EndsWithEnd(datatype) == Len(datatype) >= 2 /\ datatype[Len(datatype)] = "END"

\* _parse_gps_row: the fix parsed from data line n
parse_gps_row(line, n) == [row |-> n, datatype |-> line.datatype]

\* _parse_sensor_row: the sample parsed from data line n
parse_sensor_row(line, n) == [row |-> n, datatype |-> line.datatype]

\* _create_observation
create_observation(gps_location, readings) ==
    [fix |-> gps_location,
     sensor_readings |-> readings,
     sensor_count |-> Len(readings)]

\* The grouping state threaded through the loop.
State(td, cur, sr, seq) ==
    [telemetry_data |-> td, current_gps_location |-> cur,
     sensor_readings |-> sr, in_sensor_sequence |-> seq]

InitState == State(<<>>, None, <<>>, FALSE)

\* Variant: the burst-open flag is not cleared by a new fix.
GpsBranch_KeepsBurst(st, line, n) ==
    State(IF st.current_gps_location # None
             THEN Append(st.telemetry_data,
                         create_observation(st.current_gps_location,
                                            st.sensor_readings))
             ELSE st.telemetry_data,
          parse_gps_row(line, n),
          <<>>,
          st.in_sensor_sequence)

\* The GPS branch of the main loop.
GpsBranch(st, line, n) ==
    State(IF st.current_gps_location # None
             THEN Append(st.telemetry_data,
                         create_observation(st.current_gps_location,
                                            st.sensor_readings))
             ELSE st.telemetry_data,
          parse_gps_row(line, n),
          <<>>,
          FALSE)

\* Variant: the row is appended before the suffixes are looked at.
SensorBranch_AppendFirst(st, line, n) ==
    LET s1 == IF st.in_sensor_sequence /\ st.current_gps_location # None
                 THEN [st EXCEPT !.sensor_readings =
                                    Append(@, parse_sensor_row(line, n))]
                 ELSE st
    IN  IF EndsWithStart(line.datatype)
           THEN [s1 EXCEPT !.in_sensor_sequence = TRUE,
                           !.sensor_readings = <<>>]
           ELSE IF EndsWithEnd(line.datatype)
                   THEN [s1 EXCEPT !.in_sensor_sequence = FALSE]
                   ELSE s1

\* The SEN_ branch of the main loop.
SensorBranch(st, line, n) ==
    LET s1 == IF EndsWithStart(line.datatype)
                 THEN [st EXCEPT !.in_sensor_sequence = TRUE,
                                 !.sensor_readings = <<>>]
                 ELSE IF EndsWithEnd(line.datatype)
                         THEN [st EXCEPT !.in_sensor_sequence = FALSE]
                         ELSE st
    IN  IF s1.in_sensor_sequence /\ s1.current_gps_location # None
           THEN [s1 EXCEPT !.sensor_readings =
                              Append(@, parse_sensor_row(line, n))]
           ELSE s1

\* One complete line of the main loop (the header has been read).
ProcessLine(st, line, n) ==
    IF ~Strip(line) THEN st
    ELSE IF StartsWithDeviceId(line) THEN st
    ELSE IF IsGpsDatatype(line.datatype) THEN GpsBranch(st, line, n)
    ELSE IF StartsWithSen(line.datatype) THEN SensorBranch(st, line, n)
    ELSE st

\* The remainder of the buffer after the last chunk.
ProcessRemaining(st, line, n) ==
    IF IsGpsDatatype(line.datatype)
       THEN State(IF st.current_gps_location # None
                     THEN Append(st.telemetry_data,
                                 create_observation(st.current_gps_location,
                                                    st.sensor_readings))
                     ELSE st.telemetry_data,
                  parse_gps_row(line, n),
                  st.sensor_readings,
                  st.in_sensor_sequence)
    ELSE IF StartsWithSen(line.datatype)
       THEN IF st.in_sensor_sequence /\ st.current_gps_location # None
               THEN [st EXCEPT !.sensor_readings =
                                  Append(@, parse_sensor_row(line, n))]
               ELSE st
    ELSE st

\* Variant: the final observation is created only when samples were collected.
FinalGroups_OnlyWithSamples(st) ==
    IF st.current_gps_location # None /\ st.sensor_readings # <<>>
       THEN Append(st.telemetry_data,
                   create_observation(st.current_gps_location,
                                      st.sensor_readings))
       ELSE st.telemetry_data

\* Variant: the final observation is created only when the burst is closed.
FinalGroups_ClosedBurstOnly(st) ==
    IF st.current_gps_location # None /\ ~st.in_sensor_sequence
       THEN Append(st.telemetry_data,
                   create_observation(st.current_gps_location,
                                      st.sensor_readings))
       ELSE st.telemetry_data

\* The final observation and the returned list.
FinalGroups(st) ==
    IF st.current_gps_location # None
       THEN Append(st.telemetry_data,
                   create_observation(st.current_gps_location,
                                      st.sensor_readings))
       ELSE st.telemetry_data

----------------------------------------------------------------------------
CurState ==
    State(telemetry_data, current_gps_location, sensor_readings,
          in_sensor_sequence)

SetState(st) ==
    /\ telemetry_data' = st.telemetry_data
    /\ current_gps_location' = st.current_gps_location
    /\ sensor_readings' = st.sensor_readings
    /\ in_sensor_sequence' = st.in_sensor_sequence

\* The variables of the other functions while they are not being run.
NoObservation ==
    [timestamp |-> 0, location |-> "", additional |-> [datatype |-> NoTag],
     sensor_readings |-> <<>>]

GroupIdle ==
    /\ pc = "idle"
    /\ csv_reader = "None"
    /\ lines = <<>>
    /\ flushed = FALSE
    /\ telemetry_data = <<>>
    /\ current_gps_location = None
    /\ sensor_readings = <<>>
    /\ in_sensor_sequence = FALSE
    /\ raw = <<>>

GenIdle ==
    /\ gen_pc = "idle"
    /\ gen_at = "idle"
    /\ cutoff_time = 0
    /\ observation = NoObservation
    /\ gen_i = 0
    /\ gen_j = 0
    /\ emitted = <<>>
    /\ owed = 0

DecIdle ==
    /\ dec_pc = "idle"
    /\ detected_encoding = "None"
    /\ detect_calls = 0
    /\ chunks = <<>>
    /\ dec_buffer = <<>>
    /\ out_lines = <<>>

FileIdle ==
    /\ file_pc = "idle"
    /\ unread = 0
    /\ parsed = 0
    /\ pending = 0
    /\ batches_sent = 0
    /\ observations_sent = 0

\* No dictionary has been returned.
NoResult == [status |-> "none"]

ActIdle ==
    /\ act_file_name = <<>>
    /\ act_lock = "free"
    /\ act_acquired = FALSE
    /\ act_faults = {}
    /\ act_ops = <<>>
    /\ act_result = NoResult

LockIdle ==
    /\ lk_pc = <<>>
    /\ lk_owner = 0
    /\ lk_ttl = 0

NfIdle ==
    /\ nf_pc = "idle"
    /\ processed_files = {}
    /\ file_list = <<>>
    /\ nf_i = 0
    /\ new_files = <<>>
    /\ nf_attempted = <<>>
    /\ nf_triggered = <<>>
    /\ nf_written = <<>>
    /\ nf_result = NoResult

RunIdle ==
    /\ nf_run = 0
    /\ nf_queue = <<>>
    /\ nf_delivered = <<>>
    /\ nf_ops = <<>>

BucketIdle ==
    /\ bucket = [original |-> FALSE, archive |-> FALSE, age |-> 0,
                 archived_at |-> 0]
    /\ bk_config = [archive_days |-> 0, delete_after_archive_days |-> 0]
    /\ bk_last_run = 0

TwiceIdle ==
    /\ tw_call = 0
    /\ tw_input = <<>>
    /\ tw_out = <<>>
    /\ tw_first = <<>>

MoreIdle == RunIdle /\ BucketIdle /\ TwiceIdle

Init ==
    /\ pc = "stream"
    /\ csv_reader = "None"
    /\ lines = <<>>
    /\ flushed = FALSE
    /\ telemetry_data = <<>>
    /\ current_gps_location = None
    /\ sensor_readings = <<>>
    /\ in_sensor_sequence = FALSE
    /\ raw = <<>>
    /\ GenIdle /\ DecIdle /\ FileIdle /\ ActIdle /\ LockIdle /\ NfIdle
    /\ MoreIdle

\* The first terminated line initialises the DictReader; its content is not
\* inspected.
ReadHeader ==
    /\ pc = "stream"
    /\ csv_reader = "None"
    /\ csv_reader' = "DictReader"
    /\ UNCHANGED <<pc, lines, flushed, telemetry_data, current_gps_location,
                   sensor_readings, in_sensor_sequence>>
    /\ UNCHANGED <<raw, genVars, decVars, fileVars,
                   actVars, lockVars, nfVars, moreVars>>

\* One more terminated line is split off the buffer and processed.
StreamLine ==
    /\ pc = "stream"
    /\ csv_reader # "None"
    /\ Len(lines) < MaxRows
    /\ \E line \in Line :
          /\ lines' = Append(lines, line)
          /\ SetState(ProcessLine(CurState, line, Len(lines) + 1))
    /\ UNCHANGED <<pc, csv_reader, flushed>>
    /\ UNCHANGED <<raw, genVars, decVars, fileVars,
                   actVars, lockVars, nfVars, moreVars>>

\* The stream ends; what is left in the buffer is processed when it is
\* non-blank and a header has been read.
FlushBuffer ==
    /\ pc = "stream"
    /\ \E buffer \in Line :
          /\ Strip(buffer) => Len(lines) < MaxRows
          /\ IF Strip(buffer) /\ csv_reader # "None"
                THEN /\ lines' = Append(lines, buffer)
                     /\ flushed' = TRUE
                     /\ SetState(ProcessRemaining(CurState, buffer,
                                                  Len(lines) + 1))
                ELSE UNCHANGED <<lines, flushed, telemetry_data,
                                 current_gps_location, sensor_readings,
                                 in_sensor_sequence>>
    /\ pc' = "final"
    /\ UNCHANGED csv_reader
    /\ UNCHANGED <<raw, genVars, decVars, fileVars,
                   actVars, lockVars, nfVars, moreVars>>

\* The final observation is created and the list is returned.
FinalObservation ==
    /\ pc = "final"
    /\ telemetry_data' = FinalGroups(CurState)
    /\ pc' = "done"
    /\ UNCHANGED <<csv_reader, lines, flushed, current_gps_location,
                   sensor_readings, in_sensor_sequence>>
    /\ UNCHANGED <<raw, genVars, decVars, fileVars,
                   actVars, lockVars, nfVars, moreVars>>

Next == ReadHeader \/ StreamLine \/ FlushBuffer \/ FinalObservation

Spec == Init /\ [][Next]_vars

----------------------------------------------------------------------------
(* Vocabulary of the properties, over the history of data lines.  It is     *)
(* stated on the tags themselves and not through the operators that model   *)
(* the code's string tests.                                                 *)

TagIsGps(t)    == t = GPS \/ t = GPSS
TagIsStart(t)  == t = SenStart
TagIsEnd(t)    == t = SenEnd
TagIsData(t)   == t = SenData
TagIsSensor(t) == TagIsStart(t) \/ TagIsEnd(t) \/ TagIsData(t)

\* Data line i is the unterminated remainder of the file.
IsTail(i) == flushed /\ i = Len(lines)

\* Data line i is a row: it is not blank and it is not skipped as a repeated
\* header before its datatype is looked at.
IsRow(i) ==
    /\ i \in 1..Len(lines)
    /\ lines[i].first # ""
    /\ (lines[i].first = "device_id" => IsTail(i))

GpsRow(i)    == IsRow(i) /\ TagIsGps(lines[i].datatype)
SensorRow(i) == IsRow(i) /\ TagIsSensor(lines[i].datatype)
StartRow(i)  == IsRow(i) /\ TagIsStart(lines[i].datatype)
EndRow(i)    == IsRow(i) /\ TagIsEnd(lines[i].datatype)
DataRow(i)   == IsRow(i) /\ TagIsData(lines[i].datatype)

\* The numbers of the GPS-class rows, in file order.
GpsRowIndices ==
    SelectSeq([i \in 1..Len(lines) |-> i], LAMBDA i : GpsRow(i))

Front(s) == IF s = <<>> THEN <<>> ELSE SubSeq(s, 1, Len(s) - 1)

\* The fix rows of a list of groups, in list order.
FixRows(td) == [k \in 1..Len(td) |-> td[k].fix.row]

\* The first GPS-class row after data line i, or Len(lines) + 1.
NextGps(i) ==
    IF \E j \in (i+1)..Len(lines) : GpsRow(j)
       THEN CHOOSE j \in (i+1)..Len(lines) :
               GpsRow(j) /\ \A m \in (i+1)..(j-1) : ~GpsRow(m)
       ELSE Len(lines) + 1

\* The rows that are samples of group g.
SampleRows(g) == { g.sensor_readings[k].row : k \in 1..Len(g.sensor_readings) }

----------------------------------------------------------------------------
\* C1: for the rows GPS, burst start, N interior burst rows, burst end, GPS
\* (N >= 0), the first group returned has exactly N+1 samples: the start row
\* first, then the interior rows in row order, and not the end row.
BurstShape(N) ==
    /\ Len(lines) = N + 4
    /\ GpsRow(1)
    /\ StartRow(2)
    /\ \A k \in 3..(N+2) : DataRow(k)
    /\ EndRow(N+3)
    /\ GpsRow(N+4)

C1_BurstHasStartAndInterior ==
    pc = "done" =>
      \A N \in 0..MaxRows :
         BurstShape(N) =>
            /\ Len(telemetry_data) >= 1
            /\ telemetry_data[1].fix.row = 1
            /\ telemetry_data[1].sensor_count = N + 1
            /\ Len(telemetry_data[1].sensor_readings) = N + 1
            /\ \A k \in 1..(N+1) :
                  telemetry_data[1].sensor_readings[k].row = k + 1

C1_Witness == pc = "done" /\ BurstShape(1)

\* C2: the groups returned are, in order, the groups of the GPS-class rows,
\* one each; while the file is being read the groups appended are those of
\* all GPS-class rows but the last one read, whose fix is still current.
C2_OneGroupPerFix ==
    /\ pc = "done" => FixRows(telemetry_data) = GpsRowIndices
    /\ pc # "done" =>
          /\ FixRows(telemetry_data) = Front(GpsRowIndices)
          /\ current_gps_location.row =
                IF GpsRowIndices = <<>> THEN 0
                ELSE GpsRowIndices[Len(GpsRowIndices)]

C2_Witness ==
    /\ pc = "done"
    /\ flushed
    /\ Len(GpsRowIndices) = 3
    /\ GpsRow(Len(lines))

\* C3: with exactly one GPS-class row and no sensor row after it, exactly
\* one group is returned and it has no samples.
OneFixNoBurst ==
    /\ Len(GpsRowIndices) = 1
    /\ \A i \in 1..Len(lines) : SensorRow(i) => i < GpsRowIndices[1]

C3_SingleFixEmptyGroup ==
    (pc = "done" /\ OneFixNoBurst) =>
       /\ Len(telemetry_data) = 1
       /\ telemetry_data[1].sensor_readings = <<>>
       /\ telemetry_data[1].sensor_count = 0

C3_Witness ==
    /\ pc = "done"
    /\ OneFixNoBurst
    /\ StartRow(1)
    /\ GpsRowIndices[1] = 2
    /\ Len(lines) = 3

\* C4: in every group, every sample comes from a row after the group's fix
\* row and before the next GPS-class row, and no row is a sample of two
\* groups.
C4_SamplesBetweenFixes ==
    /\ \A k \in 1..Len(telemetry_data) :
          \A r \in SampleRows(telemetry_data[k]) :
             /\ telemetry_data[k].fix.row < r
             /\ r < NextGps(telemetry_data[k].fix.row)
    /\ \A k, m \in 1..Len(telemetry_data) :
          k # m => SampleRows(telemetry_data[k]) \cap
                   SampleRows(telemetry_data[m]) = {}

\* C5: no group contains a sample whose tag ends with the burst-end suffix.
C5_NoEndSample ==
    \A k \in 1..Len(telemetry_data) :
       \A j \in 1..Len(telemetry_data[k].sensor_readings) :
          ~TagIsEnd(telemetry_data[k].sensor_readings[j].datatype)

\* The groups returned for the data lines ls, the last of which is the
\* unterminated remainder when fl holds.
RECURSIVE RunLines(_, _, _, _)
RunLines(ls, fl, k, st) ==
    IF k > Len(ls) THEN st
    ELSE RunLines(ls, fl, k + 1,
                  IF fl /\ k = Len(ls)
                     THEN ProcessRemaining(st, ls[k], k)
                     ELSE ProcessLine(st, ls[k], k))

RunFile(ls, fl) == FinalGroups(RunLines(ls, fl, 1, InitState))

\* ls without its i-th element.
Remove(ls, i) == SubSeq(ls, 1, i - 1) \o SubSeq(ls, i + 1, Len(ls))

\* The groups td of a file from which data line i was removed, with the
\* rows numbered as in the file that has the line.
Renumber(td, i) ==
    LET up(r) == IF r >= i THEN r + 1 ELSE r
    IN  [k \in 1..Len(td) |->
           [fix |-> [td[k].fix EXCEPT !.row = up(@)],
            sensor_readings |->
               [j \in 1..Len(td[k].sensor_readings) |->
                  [td[k].sensor_readings[j] EXCEPT !.row = up(@)]],
            sensor_count |-> td[k].sensor_count]]

\* Sensor row i comes before every GPS-class row.
SensorBeforeAnyFix(i) ==
    SensorRow(i) /\ \A j \in 1..(i-1) : ~GpsRow(j)

\* C6: a sensor-tagged row that comes before any GPS-class row is a sample of
\* no group, and the groups returned are those returned for the file without
\* that row.
C6_EarlySensorRowDropped ==
    pc = "done" =>
      \A i \in 1..Len(lines) :
         SensorBeforeAnyFix(i) =>
            /\ \A k \in 1..Len(telemetry_data) :
                  i \notin SampleRows(telemetry_data[k])
            /\ telemetry_data =
                  Renumber(RunFile(Remove(lines, i),
                                   flushed /\ i # Len(lines)), i)

C6_Witness ==
    /\ pc = "done"
    /\ SensorBeforeAnyFix(1)
    /\ StartRow(1)
    /\ DataRow(2)
    /\ GpsRow(3)
    /\ DataRow(4)
    /\ Len(telemetry_data) = 1

\* C7: when the stream has ended and a fix is current, the last group
\* returned is the group of that fix with the samples collected for it, no
\* other group is for that fix, and this does not depend on the burst being
\* closed; without any GPS-class row no group is returned.
C7_FinalGroup ==
    pc = "done" =>
       /\ GpsRowIndices = <<>> => telemetry_data = <<>>
       /\ current_gps_location = None => telemetry_data = <<>>
       /\ current_gps_location # None =>
             /\ telemetry_data # <<>>
             /\ telemetry_data[Len(telemetry_data)].fix = current_gps_location
             /\ telemetry_data[Len(telemetry_data)].sensor_readings
                   = sensor_readings
             /\ Cardinality({k \in 1..Len(telemetry_data) :
                   telemetry_data[k].fix.row = current_gps_location.row}) = 1

C7_Witness ==
    /\ pc = "done"
    /\ in_sensor_sequence
    /\ Len(sensor_readings) = 2
    /\ Len(telemetry_data) = 2

\* C8: a finalized group holds only samples captured since the most recent
\* burst-start row of its fix: no sample of a group comes from a row before
\* a burst-start row that lies between the group's fix and the next fix.
C8_StartDiscardsEarlierSamples ==
    \A k \in 1..Len(telemetry_data) :
       \A r \in SampleRows(telemetry_data[k]) :
          \A j \in 1..Len(lines) :
             ( /\ StartRow(j)
               /\ telemetry_data[k].fix.row < j
               /\ j < NextGps(telemetry_data[k].fix.row) ) => r >= j

\* The last control row (GPS-class, burst start or burst end) among the
\* first n data lines, or 0.
LastControl(n) ==
    LET C == { i \in 1..n : GpsRow(i) \/ StartRow(i) \/ EndRow(i) }
    IN  IF C = {} THEN 0 ELSE CHOOSE i \in C : \A j \in C : j <= i

\* After the first n data lines a burst is open and a fix is current.
BurstOpenAfter(n) ==
    /\ LastControl(n) # 0
    /\ TagIsStart(lines[LastControl(n)].datatype)
    /\ \E i \in 1..n : GpsRow(i)

\* C9: a row with the sensor prefix and neither suffix is appended to the
\* samples being collected if and only if, in the rows read before it, the
\* last control row is a burst start and a GPS-class row has been read;
\* otherwise the samples are left as they are.
C9_InteriorRowCapturedIffOpen ==
    [][ ( /\ Len(lines') = Len(lines) + 1
          /\ lines'[Len(lines')].first # ""
          /\ (lines'[Len(lines')].first = "device_id" => flushed')
          /\ TagIsData(lines'[Len(lines')].datatype) )
        => IF BurstOpenAfter(Len(lines))
              THEN sensor_readings' =
                     Append(sensor_readings,
                            [row |-> Len(lines'),
                             datatype |-> lines'[Len(lines')].datatype])
              ELSE sensor_readings' = sensor_readings ]_vars

C9_Witness ==
    /\ pc = "done"
    /\ GpsRow(1) /\ DataRow(2) /\ StartRow(3) /\ DataRow(4) /\ DataRow(5)
    /\ flushed
    /\ SampleRows(telemetry_data[1]) = {3, 4, 5}

\* C10: a data line whose first field is the header's first field name
\* leaves the groups, the current fix, the collected samples and the
\* burst-open flag as they are, wherever it occurs.
C10_HeaderLineDiscarded ==
    [][ ( /\ Len(lines') = Len(lines) + 1
          /\ lines'[Len(lines')].first = "device_id" )
        => UNCHANGED <<telemetry_data, current_gps_location,
                       sensor_readings, in_sensor_sequence>> ]_vars

-----------------------------------------------------------------------------
(* The same function with each data line given as its list of fields, so   *)
(* that the pairing of a line with the header names is computed.           *)

MaxFieldRows == 3

\* csv_reader.fieldnames: the names on the header line.
fieldnames == <<"device_id", "datatype", "milliseconds">>

\* line.split(','): between one field and one more than the header has.
FieldLine ==
    { <<"226976">> }
      \cup { <<"226976", t>> : t \in {GPS, SenStart, SenData} }
      \cup { <<"226976", t, "0">> : t \in {GPS, SenStart, SenData} }
      \cup { <<"226976", t, "0", "extra">> : t \in {GPS, SenStart, SenData} }

Min(a, b) == IF a <= b THEN a ELSE b

\* zip(a, b): pairs up to the length of the shorter sequence.
zip(a, b) == [i \in 1..Min(Len(a), Len(b)) |-> <<a[i], b[i]>>]

\* dict(pairs): a later pair of the same key replaces an earlier one.
dict(pairs) ==
    [k \in {pairs[i][1] : i \in DOMAIN pairs} |->
        LET last == CHOOSE i \in DOMAIN pairs :
                       /\ pairs[i][1] = k
                       /\ \A j \in DOMAIN pairs : pairs[j][1] = k => j <= i
        IN  pairs[last][2]]

\* d.get(k, default)
Get(d, k, default) == IF k \in DOMAIN d THEN d[k] ELSE default

\* row_data = dict(zip(fieldnames, fields))
row_data(fields) == dict(zip(fieldnames, fields))

\* What the loop reads of a line: how it starts and its datatype.
RowLine(fields) ==
    [first    |-> fields[1],
     datatype |-> Get(row_data(fields), "datatype", NoTag)]

\* One newline-terminated data line, as its fields.
StreamFields ==
    /\ pc = "stream"
    /\ csv_reader # "None"
    /\ Len(lines) < MaxFieldRows
    /\ \E fields \in FieldLine :
          /\ raw' = Append(raw, fields)
          /\ lines' = Append(lines, RowLine(fields))
          /\ SetState(ProcessLine(CurState, RowLine(fields), Len(lines) + 1))
    /\ UNCHANGED <<pc, csv_reader, flushed>>
    /\ UNCHANGED <<genVars, decVars, fileVars,
                   actVars, lockVars, nfVars, moreVars>>

\* The stream ends with an empty buffer or with one unterminated line.
FlushFields ==
    /\ pc = "stream"
    /\ \/ UNCHANGED <<raw, lines, flushed, telemetry_data,
                      current_gps_location, sensor_readings,
                      in_sensor_sequence>>
       \/ /\ csv_reader # "None"
          /\ Len(lines) < MaxFieldRows
          /\ \E fields \in FieldLine :
                /\ raw' = Append(raw, fields)
                /\ lines' = Append(lines, RowLine(fields))
                /\ flushed' = TRUE
                /\ SetState(ProcessRemaining(CurState, RowLine(fields),
                                             Len(lines) + 1))
    /\ pc' = "final"
    /\ UNCHANGED csv_reader
    /\ UNCHANGED <<genVars, decVars, fileVars,
                   actVars, lockVars, nfVars, moreVars>>

NextFields == ReadHeader \/ StreamFields \/ FlushFields \/ FinalObservation

SpecFields == Init /\ [][NextFields]_vars

\* C11: a data line that splits into a number of fields other than the
\* number of header names leaves the groups, the current fix, the collected
\* samples and the burst-open flag as they are.
C11_MismatchedRowDiscarded ==
    [][ ( /\ Len(raw') = Len(raw) + 1
          /\ Len(raw'[Len(raw')]) # Len(fieldnames) )
        => UNCHANGED <<telemetry_data, current_gps_location,
                       sensor_readings, in_sensor_sequence>> ]_vars

-----------------------------------------------------------------------------
(* generate_gundi_observations, a generator, and a consumer that calls     *)
(* next() on it or abandons it.  Times are in units of 500 ms; a group of  *)
(* telemetry_data is fixed when the for loop reaches it.                   *)

MaxGroups  == 2
MaxSamples == 2

\* Optional[int] as returned by _safe_int: None or a value.
NoneInt    == <<>>
Some(v)    == <<v>>
IsNone(x)  == x = <<>>

\* UTC_datetime has a resolution of one second (two units).
Timestamps == {0, 2}

\* cutoff_time = now - timedelta(days=historical_limit_days)
Cutoffs == {1, 2}

\* A sensor reading as _parse_sensor_row builds it: the datatype is a key
\* of the reading itself, milliseconds a key of its "additional".
SensorReading ==
    [timestamp  : Timestamps,
     datatype   : {SenStart},
     additional : [milliseconds : {NoneInt, Some(0), Some(1)}]]

RECURSIVE SeqsUpTo(_, _)
SeqsUpTo(S, n) ==
    IF n = 0 THEN { <<>> }
    ELSE LET shorter == SeqsUpTo(S, n - 1)
         IN  shorter \cup { Append(q, x) : q \in shorter, x \in S }

\* A grouped observation as _create_observation builds it.
Observation ==
    [timestamp       : Timestamps,
     location        : {"A", "B"},
     additional      : [datatype : {GPS, GPSS}],
     sensor_readings : SeqsUpTo(SensorReading, MaxSamples)]

\* recorded_at < cutoff_time
TooOld(recorded_at, cutoff) == recorded_at < cutoff

\* Variant: an old fix is not skipped.
SkipGroup_Never(recorded_at, cutoff) == FALSE

\* if recorded_at < cutoff_time: continue        (the fix of a group)
SkipGroup(recorded_at, cutoff) == TooOld(recorded_at, cutoff)

\* Variant: an old sample is not skipped.
SkipSample_Never(recorded_at, cutoff) == FALSE

\* if recorded_at < cutoff_time: continue        (one sensor reading)
SkipSample(recorded_at, cutoff) == TooOld(recorded_at, cutoff)

\* gundi_observation; origin is the group and 0 for "the fix".
FixEvent(obs, i) ==
    [origin      |-> <<i, 0>>,
     recorded_at |-> obs.timestamp,
     type        |-> "tracking-device",
     location    |-> obs.location,
     additional  |-> [datatype |-> Get(obs.additional, "datatype", NoTag)]]

\* sensor_observation of the j-th sensor reading of the group.
SensorEvent(obs, i, j, recorded_at) ==
    [origin      |-> <<i, j>>,
     recorded_at |-> recorded_at,
     type        |-> "tracking-device",
     location    |-> obs.location,
     additional  |->
        [datatype |-> Get(obs.sensor_readings[j].additional, "datatype",
                          NoTag)]]

\* Variant: the generator runs on after a yield.
AfterYield_KeepsRunning == "running"

\* A yield suspends the generator until the next call of next().
AfterYield == "suspended"

\* Variant: the readings are taken last to first.
ReadingIndex_Reversed(n, j) == n - j + 1

\* for sensor_reading in observation.get("sensor_readings", []): the
\* j-th iteration takes the j-th reading of n.
ReadingIndex(n, j) == j

\* The generator object has been created; no line of its body has run.
InitEmit ==
    /\ GroupIdle /\ DecIdle /\ FileIdle /\ ActIdle /\ LockIdle /\ NfIdle
    /\ MoreIdle
    /\ gen_pc = "start"
    /\ gen_at = "start"
    /\ cutoff_time = 0
    /\ observation = NoObservation
    /\ gen_i = 0
    /\ gen_j = 0
    /\ emitted = <<>>
    /\ owed = 0

\* The consumer calls next(); the first call runs the body from its top,
\* where cutoff_time is computed.
Pull ==
    /\ gen_pc \in {"start", "suspended"}
    /\ gen_pc' = "running"
    /\ owed' = owed + 1
    /\ IF gen_pc = "start"
          THEN /\ cutoff_time' \in Cutoffs
               /\ gen_at' = "for_observation"
          ELSE UNCHANGED <<cutoff_time, gen_at>>
    /\ UNCHANGED <<observation, gen_i, gen_j, emitted>>
    /\ UNCHANGED <<groupVars, raw, decVars, fileVars,
                   actVars, lockVars, nfVars, moreVars>>

\* The consumer drops the generator without exhausting it.
Abandon ==
    /\ gen_pc \in {"start", "suspended"}
    /\ gen_pc' = "closed"
    /\ UNCHANGED <<gen_at, cutoff_time, observation, gen_i, gen_j, emitted,
                   owed>>
    /\ UNCHANGED <<groupVars, raw, decVars, fileVars,
                   actVars, lockVars, nfVars, moreVars>>

\* for observation in telemetry_data: the next group, up to the yield of
\* its fix event or the continue that skips the group.
ForObservation ==
    /\ gen_pc = "running"
    /\ gen_at = "for_observation"
    /\ gen_i < MaxGroups
    /\ \E obs \in Observation :
          /\ observation' = obs
          /\ gen_i' = gen_i + 1
          /\ gen_j' = 0
          /\ IF SkipGroup(obs.timestamp, cutoff_time)
                THEN /\ emitted' = <<>>
                     /\ UNCHANGED <<gen_pc, gen_at, owed>>
                ELSE /\ emitted' = <<FixEvent(obs, gen_i + 1)>>
                     /\ gen_pc' = AfterYield
                     /\ gen_at' = "for_sensor"
                     /\ owed' = owed - 1
    /\ UNCHANGED cutoff_time
    /\ UNCHANGED <<groupVars, raw, decVars, fileVars,
                   actVars, lockVars, nfVars, moreVars>>

\* telemetry_data has no further group: the generator returns.
StopIteration ==
    /\ gen_pc = "running"
    /\ gen_at = "for_observation"
    /\ gen_pc' = "exhausted"
    /\ UNCHANGED <<gen_at, cutoff_time, observation, gen_i, gen_j, emitted,
                   owed>>
    /\ UNCHANGED <<groupVars, raw, decVars, fileVars,
                   actVars, lockVars, nfVars, moreVars>>

\* for sensor_reading in observation["sensor_readings"]: the next reading,
\* up to its yield, its continue or the TypeError of timedelta; or the end
\* of the readings.
ForSensor ==
    /\ gen_pc = "running"
    /\ gen_at = "for_sensor"
    /\ LET n == Len(observation.sensor_readings)
       IN  IF gen_j < n
           THEN LET j == ReadingIndex(n, gen_j + 1)
                    sensor_reading == observation.sensor_readings[j]
                    milliseconds ==
                        Get(sensor_reading.additional, "milliseconds",
                            Some(0))
                IN  /\ gen_j' = gen_j + 1
                    /\ IF IsNone(milliseconds)
                       THEN /\ gen_pc' = "raised"
                            /\ UNCHANGED <<gen_at, emitted, owed>>
                       ELSE LET recorded_at ==
                                    sensor_reading.timestamp + milliseconds[1]
                            IN  IF SkipSample(recorded_at, cutoff_time)
                                THEN UNCHANGED <<gen_pc, gen_at, emitted,
                                                 owed>>
                                ELSE /\ emitted' =
                                          Append(emitted,
                                                 SensorEvent(observation,
                                                     gen_i, j, recorded_at))
                                     /\ gen_pc' = AfterYield
                                     /\ owed' = owed - 1
                                     /\ UNCHANGED gen_at
           ELSE /\ gen_at' = "for_observation"
                /\ UNCHANGED <<gen_pc, gen_j, emitted, owed>>
    /\ UNCHANGED <<cutoff_time, observation, gen_i>>
    /\ UNCHANGED <<groupVars, raw, decVars, fileVars,
                   actVars, lockVars, nfVars, moreVars>>

NextEmit == Pull \/ Abandon \/ ForObservation \/ StopIteration \/ ForSensor

SpecEmit == InitEmit /\ [][NextEmit]_vars

-----------------------------------------------------------------------------
(* Vocabulary of the properties of the generator: the ages are read off    *)
(* the group itself, not off the events.                                   *)

\* A time that is not strictly older than the cutoff.
WithinCutoff(t) == t >= cutoff_time

\* timestamp + milliseconds of a reading, an unset offset counting as none.
PreciseTime(r) ==
    r.timestamp + (IF r.additional.milliseconds = <<>>
                      THEN 0 ELSE r.additional.milliseconds[1])

SampleIndices == DOMAIN observation.sensor_readings

\* The generator is through the group it read last.
GroupDone ==
    /\ gen_i >= 1
    /\ gen_at = "for_observation"
    /\ gen_pc \in {"running", "exhausted"}

EventOrigins == { emitted[k].origin : k \in DOMAIN emitted }

\* C12: no event that has been yielded, for a fix or for a sample, has a
\* timestamp strictly older than the cutoff.
C12_NoEventOlderThanCutoff ==
    \A k \in DOMAIN emitted : emitted[k].recorded_at >= cutoff_time

\* A sample older than the cutoff was skipped and a sample exactly at the
\* cutoff was kept.
C12_Witness ==
    /\ gen_pc = "exhausted"
    /\ Len(observation.sensor_readings) = 2
    /\ PreciseTime(observation.sensor_readings[1]) < cutoff_time
    /\ Len(emitted) = 2
    /\ emitted[2].origin = <<gen_i, 2>>
    /\ emitted[2].recorded_at = cutoff_time

C14_AllWithinCutoffYieldsKPlusOne ==
    ( /\ gen_i >= 1
      /\ WithinCutoff(observation.timestamp)
      /\ \A j \in SampleIndices :
            WithinCutoff(PreciseTime(observation.sensor_readings[j])) )
    => /\ gen_pc # "raised"
       /\ GroupDone =>
            /\ Len(emitted) = Len(observation.sensor_readings) + 1
            /\ \A k \in DOMAIN emitted :
                  /\ emitted[k].type = "tracking-device"
                  /\ emitted[k].location = observation.location

\* C15: the events come in input order.  The groups are taken one after
\* the other, every event yielded belongs to the group taken last and is
\* added after the events already yielded for it, and within a group the
\* fix event comes first and the sample events follow in the order of the
\* samples.
C15_OrderPreserved ==
    /\ [](\A k \in DOMAIN emitted :
             /\ emitted[k].origin[1] = gen_i
             /\ \A l \in DOMAIN emitted :
                   k < l => emitted[k].origin[2] < emitted[l].origin[2])
    /\ [][ /\ gen_i' \in {gen_i, gen_i + 1}
           /\ gen_i' = gen_i =>
                 \/ emitted' = emitted
                 \/ /\ Len(emitted') = Len(emitted) + 1
                    /\ SubSeq(emitted', 1, Len(emitted)) = emitted ]_vars

\* The second group has yielded its fix event and both of its samples.
C15_Witness ==
    /\ gen_i = 2
    /\ Len(emitted) = 3
    /\ emitted[1].origin = <<2, 0>>
    /\ emitted[2].origin = <<2, 1>>
    /\ emitted[3].origin = <<2, 2>>

\* C16: every event carries the datatype tag of the row it comes from: a
\* fix event the tag of the fix row, a sample event the tag of its sensor
\* row.
C16_EventCarriesDatatype ==
    \A k \in DOMAIN emitted :
        LET j == emitted[k].origin[2]
        IN  emitted[k].additional.datatype =
               IF j = 0 THEN observation.additional.datatype
                        ELSE observation.sensor_readings[j].datatype

\* C17: the generator only runs when an event is asked for.  It never has
\* yielded more events than next() was called, and while it waits or after
\* it was abandoned the last event yielded comes from the last group and
\* the last reading it has read; abandoning it, and anything after that,
\* leaves what it has read and yielded as it is.
C17_PullDriven ==
    /\ [](/\ owed \in {0, 1}
          /\ gen_pc \in {"start", "suspended", "closed"} =>
                /\ owed = 0
                /\ IF gen_i = 0
                      THEN emitted = <<>>
                      ELSE /\ emitted # <<>>
                           /\ emitted[Len(emitted)].origin = <<gen_i, gen_j>>)
    /\ [][ (gen_pc = "closed" \/ gen_pc' = "closed")
           => UNCHANGED <<gen_at, cutoff_time, observation, gen_i, gen_j,
                          emitted, owed>> ]_vars

\* The consumer took the fix event and the first sample event of the first
\* group and stopped; the second sample and the next group are unread.
C17_Witness ==
    /\ gen_pc = "closed"
    /\ gen_i = 1
    /\ gen_j = 1
    /\ Len(observation.sensor_readings) = 2
    /\ Len(emitted) = 2

\* The samples of the group in hand whose millisecond offset is unset (the
\* field of the row was empty or no number).
UnsetMilliseconds ==
    { j \in SampleIndices :
        /\ "milliseconds" \in DOMAIN observation.sensor_readings[j].additional
        /\ observation.sensor_readings[j].additional.milliseconds = NoneInt }

\* C29: a sample whose millisecond offset is unset does not abort the
\* generator: the events of the other rows are still produced.
C29_UnsetMillisecondsDoesNotAbort ==
    UnsetMilliseconds # {} => gen_pc # "raised"

-----------------------------------------------------------------------------
(* action_process_ornitela_file for one CSV file whose lock was acquired:  *)
(* the file is streamed and parsed, then its events are sent in batches.   *)
(* Every row is a fix row within the cutoff, so a group is one event.      *)

MaxChunks    == 3
MaxChunkRows == 101

\* batches_from_generator(transformed_data, 200)
BatchSize == 200

\* Variant: the parser hands over its groups before the stream has ended.
StreamExhausted_Always(u) == TRUE

\* async for chunk in file_storage.stream_file(...) ends, and the groups
\* are returned, when the source has no further chunk.
StreamExhausted(u) == u = 0

InitFile ==
    /\ GroupIdle /\ GenIdle /\ DecIdle /\ ActIdle /\ LockIdle /\ NfIdle
    /\ MoreIdle
    /\ file_pc = "streaming"
    /\ unread \in 1..MaxChunks
    /\ parsed = 0
    /\ pending = 0
    /\ batches_sent = 0
    /\ observations_sent = 0

\* The parser takes one chunk and appends the groups of its rows.
ReadChunk ==
    /\ file_pc = "streaming"
    /\ unread > 0
    /\ unread' = unread - 1
    /\ \E rows \in 0..MaxChunkRows : parsed' = parsed + rows
    /\ UNCHANGED <<file_pc, pending, batches_sent, observations_sent>>
    /\ UNCHANGED <<groupVars, raw, genVars, decVars,
                   actVars, lockVars, nfVars, moreVars>>

\* telemetry_data = await _process_csv_file_streaming(...) completes and
\* the generator over the list is created.
ReturnGroups ==
    /\ file_pc = "streaming"
    /\ StreamExhausted(unread)
    /\ file_pc' = "sending"
    /\ pending' = parsed
    /\ UNCHANGED <<unread, parsed, batches_sent, observations_sent>>
    /\ UNCHANGED <<groupVars, raw, genVars, decVars,
                   actVars, lockVars, nfVars, moreVars>>

\* One batch is pulled from the generator and sent.
SendBatch ==
    /\ file_pc = "sending"
    /\ pending > 0
    /\ LET batch == Min(BatchSize, pending)
       IN  /\ pending' = pending - batch
           /\ observations_sent' = observations_sent + batch
    /\ batches_sent' = batches_sent + 1
    /\ UNCHANGED <<file_pc, unread, parsed>>
    /\ UNCHANGED <<groupVars, raw, genVars, decVars,
                   actVars, lockVars, nfVars, moreVars>>

\* The generator is exhausted; archiving, logging and the result follow.
FinishFile ==
    /\ file_pc = "sending"
    /\ pending = 0
    /\ file_pc' = "done"
    /\ UNCHANGED <<unread, parsed, pending, batches_sent, observations_sent>>
    /\ UNCHANGED <<groupVars, raw, genVars, decVars,
                   actVars, lockVars, nfVars, moreVars>>

NextFile == ReadChunk \/ ReturnGroups \/ SendBatch \/ FinishFile

SpecFile == InitFile /\ [][NextFile]_vars

-----------------------------------------------------------------------------
(* The chunk loop of _process_csv_file_streaming: detection of the         *)
(* encoding, decoding of each chunk into the buffer and splitting of the   *)
(* buffer into lines.  A chunk is given by what its bytes are and by       *)
(* whether it ends with a newline; the text of a chunk is one piece.       *)

MaxDecodeChunks == 3

\* "ascii": ASCII only; "utf8": holds a complete multi-byte UTF-8
\* character; "cut": UTF-8 text that ends inside a multi-byte character;
\* "latin1": holds a byte that is no UTF-8 (0xE9); "object": not a bytes
\* object, its decode raises something other than UnicodeDecodeError.
Chunk ==
    [bytes : {"ascii", "utf8", "latin1"}, nl : BOOLEAN]
      \cup { [bytes |-> "cut", nl |-> FALSE],
             [bytes |-> "object", nl |-> FALSE] }

IsBytes(chunk) == chunk.bytes # "object"

\* encodings = ['utf-8', 'latin-1', 'cp1252', 'iso-8859-1']
encodings == <<"utf-8", "latin-1", "cp1252", "iso-8859-1">>

\* chunk.decode(encoding) raises no UnicodeDecodeError.
StrictDecodes(chunk, encoding) ==
    IF encoding = "utf-8" THEN chunk.bytes \in {"ascii", "utf8"} ELSE TRUE

\* The for loop of _detect_encoding over the encodings left to try.
RECURSIVE DetectFrom(_, _)
DetectFrom(chunk, encs) ==
    IF encs = <<>> THEN "utf-8"
    ELSE IF StrictDecodes(chunk, Head(encs)) THEN Head(encs)
         ELSE DetectFrom(chunk, Tail(encs))

detect_encoding(chunk) == DetectFrom(chunk, encodings)

\* The text chunk.decode gives: UTF-8 with errors='replace' puts U+FFFD
\* for a byte it cannot decode; Latin-1 maps every byte to one character.
DecodeText(chunk, codec) ==
    IF chunk.bytes = "ascii" THEN "e"
    ELSE IF codec = "utf-8"
         THEN (IF chunk.bytes = "utf8" THEN "e-acute" ELSE "U+FFFD")
         ELSE CASE chunk.bytes = "utf8"   -> "A-tilde copyright"
                [] chunk.bytes = "cut"    -> "A-tilde"
                [] chunk.bytes = "latin1" -> "e-acute"

\* Variant: the encoding is detected anew on every chunk.
NeedsDetection_Always(enc) == TRUE

\* if detected_encoding is None:
NeedsDetection(enc) == enc = "None"

\* Variant: a chunk that cannot be decoded ends the call with an error.
OnDecodeError_Abort == "raised"

\* except Exception: logger.exception(...); continue
OnDecodeError == "stream"

InitDecode ==
    /\ GroupIdle /\ GenIdle /\ FileIdle /\ ActIdle /\ LockIdle /\ NfIdle
    /\ MoreIdle
    /\ dec_pc = "stream"
    /\ detected_encoding = "None"
    /\ detect_calls = 0
    /\ chunks = <<>>
    /\ dec_buffer = <<>>
    /\ out_lines = <<>>

\* One iteration of the async for loop over the chunks.
TakeChunk ==
    /\ dec_pc = "stream"
    /\ Len(chunks) < MaxDecodeChunks
    /\ \E chunk \in Chunk :
        LET detect == NeedsDetection(detected_encoding)
            k      == Len(chunks) + 1
        IN  /\ chunks' = Append(chunks, chunk)
            /\ detect_calls' = detect_calls + (IF detect THEN 1 ELSE 0)
            /\ IF detect /\ ~IsBytes(chunk)
               THEN \* _detect_encoding raises, outside the inner try
                    /\ dec_pc' = "raised"
                    /\ UNCHANGED <<detected_encoding, dec_buffer, out_lines>>
               ELSE LET enc == IF detect THEN detect_encoding(chunk)
                                         ELSE detected_encoding
                    IN  /\ detected_encoding' = enc
                        /\ IF ~IsBytes(chunk)
                           THEN /\ dec_pc' = OnDecodeError
                                /\ UNCHANGED <<dec_buffer, out_lines>>
                           ELSE LET piece ==
                                      [chunk |-> k, codec |-> enc,
                                       text  |-> DecodeText(chunk, enc)]
                                IN  /\ IF chunk.nl
                                       THEN /\ out_lines' =
                                                Append(out_lines,
                                                   Append(dec_buffer, piece))
                                            /\ dec_buffer' = <<>>
                                       ELSE /\ dec_buffer' =
                                                Append(dec_buffer, piece)
                                            /\ UNCHANGED out_lines
                                    /\ UNCHANGED dec_pc
    /\ UNCHANGED <<groupVars, raw, genVars, fileVars,
                   actVars, lockVars, nfVars, moreVars>>

\* The source has no further chunk: text left in the buffer is the last
\* line, and the call returns.
EndOfStream ==
    /\ dec_pc = "stream"
    /\ dec_pc' = "returned"
    /\ out_lines' = IF dec_buffer # <<>> THEN Append(out_lines, dec_buffer)
                                         ELSE out_lines
    /\ UNCHANGED <<detected_encoding, detect_calls, chunks, dec_buffer>>
    /\ UNCHANGED <<groupVars, raw, genVars, fileVars,
                   actVars, lockVars, nfVars, moreVars>>

NextDecode == TakeChunk \/ EndOfStream

SpecDecode == InitDecode /\ [][NextDecode]_vars

-----------------------------------------------------------------------------
(* Vocabulary of the properties of the chunk loop.                         *)

\* The codec that fits the first chunk: UTF-8 when its bytes are valid
\* UTF-8, Latin-1 otherwise.
CodecOfFirst(chunk) ==
    IF chunk.bytes \in {"ascii", "utf8"} THEN "utf-8" ELSE "latin-1"

RECURSIVE Flatten(_)
Flatten(seqs) ==
    IF seqs = <<>> THEN <<>> ELSE Head(seqs) \o Flatten(Tail(seqs))

\* All pieces of text decoded so far, in the order of the text.
Pieces == Flatten(out_lines) \o (IF dec_pc = "returned" THEN <<>>
                                                       ELSE dec_buffer)

RECURSIVE BytesChunksFrom(_)
BytesChunksFrom(k) ==
    IF k > Len(chunks) THEN <<>>
    ELSE (IF chunks[k].bytes # "object" THEN <<k>> ELSE <<>>)
           \o BytesChunksFrom(k + 1)

\* C19: the encoding is detected once, on the first chunk, and every piece
\* of text of the file is decoded with the codec chosen then; once chosen
\* the codec never changes.
C19_DetectedOnceOnFirstChunk ==
    /\ [](/\ detect_calls = (IF chunks = <<>> THEN 0 ELSE 1)
          /\ (chunks # <<>> /\ dec_pc # "raised") =>
                /\ detected_encoding = CodecOfFirst(chunks[1])
                /\ \A n \in DOMAIN Pieces :
                      Pieces[n].codec = CodecOfFirst(chunks[1]))
    /\ [][ detected_encoding # "None"
              => detected_encoding' = detected_encoding ]_vars

\* A file whose first chunk is valid UTF-8 and whose second chunk is not:
\* the second chunk alone would have been detected as Latin-1.
C19_Witness ==
    /\ dec_pc = "returned"
    /\ Len(chunks) = 3
    /\ chunks[1].bytes = "ascii"
    /\ chunks[2].bytes = "latin1"
    /\ detected_encoding = "utf-8"
    /\ Len(Pieces) = 3
    /\ Pieces[2].text = "U+FFFD"

-----------------------------------------------------------------------------
\* C21: the groups returned for a file whose last line has no terminator
\* are the groups returned for the same lines with the last one terminated.
C21_UnterminatedLineAsTerminated ==
    (pc = "done" /\ flushed) => telemetry_data = RunFile(lines, FALSE)

-----------------------------------------------------------------------------
(* The chunk loop once more, with a chunk given as its bytes, so that the  *)
(* place where the byte stream is cut is part of the input.  The file is   *)
(* UTF-8 text: "a" is an ASCII letter, "NL" the newline, and "C3" "A9" the *)
(* two bytes of one e-acute.                                               *)

MaxFileBytes == 4
MaxChunkLen  == 2

Byte == {"a", "NL", "C3", "A9"}

\* stream_file never yields an empty chunk.
ByteChunk == SeqsUpTo(Byte, MaxChunkLen) \ { <<>> }

\* bs.decode('utf-8', errors='replace'): a byte that does not belong to a
\* complete character within bs becomes U+FFFD.
RECURSIVE Utf8Replace(_)
Utf8Replace(bs) ==
    IF bs = <<>> THEN <<>>
    ELSE IF bs[1] = "C3" /\ Len(bs) >= 2 /\ bs[2] = "A9"
         THEN <<"e-acute">> \o Utf8Replace(SubSeq(bs, 3, Len(bs)))
    ELSE IF bs[1] \in {"C3", "A9"}
         THEN <<"U+FFFD">> \o Utf8Replace(Tail(bs))
    ELSE <<bs[1]>> \o Utf8Replace(Tail(bs))

\* bs.decode('latin-1'): one character for every byte.
Latin1(bs) ==
    [n \in DOMAIN bs |->
        CASE bs[n] = "C3" -> "A-tilde"
          [] bs[n] = "A9" -> "copyright"
          [] OTHER        -> bs[n]]

\* bs.decode(encoding) raises no UnicodeDecodeError.
StrictDecodesBytes(bs, encoding) ==
    IF encoding = "utf-8"
       THEN \A n \in DOMAIN Utf8Replace(bs) : Utf8Replace(bs)[n] # "U+FFFD"
       ELSE TRUE

\* The for loop of _detect_encoding, on the bytes of the chunk.
RECURSIVE DetectBytesFrom(_, _)
DetectBytesFrom(bs, encs) ==
    IF encs = <<>> THEN "utf-8"
    ELSE IF StrictDecodesBytes(bs, Head(encs)) THEN Head(encs)
         ELSE DetectBytesFrom(bs, Tail(encs))

\* chunk.decode('utf-8', errors='replace') or chunk.decode(detected_encoding)
DecodeBytes(bs, encoding) ==
    IF encoding = "utf-8" THEN Utf8Replace(bs) ELSE Latin1(bs)

\* while '\n' in buffer: line, buffer = buffer.split('\n', 1)
RECURSIVE SplitLines(_, _)
SplitLines(buf, ls) ==
    IF \E n \in DOMAIN buf : buf[n] = "NL"
       THEN LET n == CHOOSE m \in DOMAIN buf :
                        /\ buf[m] = "NL"
                        /\ \A l \in 1..(m - 1) : buf[l] # "NL"
            IN  SplitLines(SubSeq(buf, n + 1, Len(buf)),
                           Append(ls, SubSeq(buf, 1, n - 1)))
       ELSE [buffer |-> buf, lines |-> ls]

\* One iteration of the chunk loop on the encoding, the buffer and the
\* lines split off so far.
ChunkStep(st, bs) ==
    LET enc == IF NeedsDetection(st.encoding)
                  THEN DetectBytesFrom(bs, encodings) ELSE st.encoding
        sp  == SplitLines(st.buffer \o DecodeBytes(bs, enc), st.lines)
    IN  [encoding |-> enc, buffer |-> sp.buffer, lines |-> sp.lines]

\* if buffer.strip() ...: the text left over is the last line.
FlushLines(st) ==
    IF st.buffer # <<>> THEN Append(st.lines, st.buffer) ELSE st.lines

RECURSIVE RunChunks(_, _)
RunChunks(cs, st) ==
    IF cs = <<>> THEN st ELSE RunChunks(Tail(cs), ChunkStep(st, Head(cs)))

\* The lines the function works on for the chunks cs.
LinesOfChunks(cs) ==
    FlushLines(RunChunks(cs, [encoding |-> "None", buffer |-> <<>>,
                              lines |-> <<>>]))

\* The next chunk of the file.
TakeBytes ==
    /\ dec_pc = "stream"
    /\ \E bs \in ByteChunk :
          /\ Len(Flatten(chunks)) + Len(bs) <= MaxFileBytes
          /\ chunks' = Append(chunks, bs)
          /\ detect_calls' = detect_calls +
                (IF NeedsDetection(detected_encoding) THEN 1 ELSE 0)
          /\ LET st == ChunkStep([encoding |-> detected_encoding,
                                  buffer   |-> dec_buffer,
                                  lines    |-> out_lines], bs)
             IN  /\ detected_encoding' = st.encoding
                 /\ dec_buffer' = st.buffer
                 /\ out_lines' = st.lines
    /\ UNCHANGED dec_pc
    /\ UNCHANGED <<groupVars, raw, genVars, fileVars,
                   actVars, lockVars, nfVars, moreVars>>

\* The file has no further chunk.
EndOfBytes ==
    /\ dec_pc = "stream"
    /\ dec_pc' = "returned"
    /\ out_lines' = FlushLines([encoding |-> detected_encoding,
                                buffer   |-> dec_buffer,
                                lines    |-> out_lines])
    /\ UNCHANGED <<detected_encoding, detect_calls, chunks, dec_buffer>>
    /\ UNCHANGED <<groupVars, raw, genVars, fileVars,
                   actVars, lockVars, nfVars, moreVars>>

NextBytes == TakeBytes \/ EndOfBytes

SpecBytes == InitDecode /\ [][NextBytes]_vars

\* C22: the lines produced do not depend on the chunking: for every way of
\* cutting the bytes of a file into chunks they are the lines produced
\* when the file arrives as one chunk.  Stated for the files that are valid
\* UTF-8, where a cut can only split a line or a character.
C22_LinesIndependentOfChunking ==
    ( /\ dec_pc = "returned"
      /\ chunks # <<>>
      /\ StrictDecodesBytes(Flatten(chunks), "utf-8") )
    => out_lines = LinesOfChunks(<<Flatten(chunks)>>)

-----------------------------------------------------------------------------
(* One invocation of action_process_ornitela_file, from acquire_lock to    *)
(* its return.  file_pc is the position in the handler; the collaborators  *)
(* (Redis lock, bucket, delivery, activity log) may fail at each call.     *)
(* A file name is the sequence of its dot-separated parts.                 *)

MaxDays == 2

FileNames ==
    { <<"data", "csv">>, <<"data", "json">>, <<"data", "csv", "gz">>,
      <<"csv">> }

\* Variant: every file is taken for a CSV file.
EndsWithCsv_Always(name) == TRUE

\* action_config.file_name.endswith('.csv')
EndsWithCsv(name) == Len(name) >= 2 /\ name[Len(name)] = "csv"

\* The exception bound to e in the handler's except clause.
Exception(cause) == [status |-> "exception", error |-> cause]

InitAction ==
    /\ GroupIdle /\ GenIdle /\ DecIdle /\ LockIdle /\ NfIdle
    /\ MoreIdle
    /\ file_pc = "acquire"
    /\ unread \in 1..MaxChunks
    /\ parsed = 0
    /\ pending = 0
    /\ batches_sent = 0
    /\ observations_sent = 0
    /\ act_file_name \in FileNames
    /\ act_lock \in {"free", "other"}
    /\ act_acquired = FALSE
    /\ act_faults = {}
    /\ act_ops = <<>>
    /\ act_result = NoResult

\* lock_manager.acquire_lock: SET NX EX; False when the key exists or
\* when Redis fails.
AcquireLock ==
    /\ file_pc = "acquire"
    /\ \E redis_ok \in BOOLEAN :
         IF redis_ok /\ act_lock = "free"
         THEN /\ act_lock' = "mine"
              /\ act_acquired' = TRUE
              /\ file_pc' = "check"
              /\ UNCHANGED act_faults
         ELSE /\ file_pc' = "log_locked"
              /\ act_faults' = IF redis_ok THEN act_faults
                               ELSE act_faults \cup {"lock"}
              /\ UNCHANGED <<act_lock, act_acquired>>
    /\ UNCHANGED <<act_file_name, act_ops, act_result>>
    /\ UNCHANGED <<unread, parsed, pending, batches_sent, observations_sent>>
    /\ UNCHANGED <<groupVars, raw, genVars, decVars, lockVars, nfVars, moreVars>>

\* The lock was not acquired: the skip is logged, outside the try block,
\* and the skipped result is returned.
LogLocked ==
    /\ file_pc = "log_locked"
    /\ \E log_ok \in BOOLEAN :
         IF log_ok
         THEN /\ file_pc' = "returned"
              /\ act_result' = [status |-> "skipped",
                                reason |-> "File is already being processed",
                                file_name |-> act_file_name]
              /\ UNCHANGED act_faults
         ELSE /\ file_pc' = "raised"
              /\ act_result' = Exception("activity_log")
              /\ act_faults' = act_faults \cup {"activity_log"}
    /\ UNCHANGED <<act_file_name, act_lock, act_acquired, act_ops>>
    /\ UNCHANGED <<unread, parsed, pending, batches_sent, observations_sent>>
    /\ UNCHANGED <<groupVars, raw, genVars, decVars, lockVars, nfVars, moreVars>>

\* Inside the try block: CloudFileStorage(...) is built and the file name
\* is tested.
CheckFile ==
    /\ file_pc = "check"
    /\ \E storage_ok \in BOOLEAN :
         IF ~storage_ok
         THEN /\ file_pc' = "except"
              /\ act_result' = Exception("storage")
              /\ act_faults' = act_faults \cup {"storage"}
         ELSE /\ file_pc' = IF EndsWithCsv(act_file_name)
                            THEN "streaming" ELSE "log_noncsv"
              /\ UNCHANGED <<act_result, act_faults>>
    /\ UNCHANGED <<act_file_name, act_lock, act_acquired, act_ops>>
    /\ UNCHANGED <<unread, parsed, pending, batches_sent, observations_sent>>
    /\ UNCHANGED <<groupVars, raw, genVars, decVars, lockVars, nfVars, moreVars>>

\* lock_manager.release_lock: DEL of the key; it returns False, and
\* leaves the key, when Redis fails.
release_lock(lock, redis_ok) == IF redis_ok THEN "free" ELSE lock

\* The non-CSV skip: logged, the lock released, the skipped result
\* returned.
LogNonCsv ==
    /\ file_pc = "log_noncsv"
    /\ \E log_ok, redis_ok \in BOOLEAN :
         IF log_ok
         THEN /\ file_pc' = "returned"
              /\ act_lock' = release_lock(act_lock, redis_ok)
              /\ act_ops' = Append(act_ops, "release_lock")
              /\ act_result' = [status |-> "skipped",
                                reason |-> "Not a CSV file",
                                file_name |-> act_file_name]
              /\ act_faults' = IF redis_ok THEN act_faults
                               ELSE act_faults \cup {"lock"}
         ELSE /\ file_pc' = "except"
              /\ act_result' = Exception("activity_log")
              /\ act_faults' = act_faults \cup {"activity_log"}
              /\ UNCHANGED <<act_lock, act_ops>>
    /\ UNCHANGED <<act_file_name, act_acquired>>
    /\ UNCHANGED <<unread, parsed, pending, batches_sent, observations_sent>>
    /\ UNCHANGED <<groupVars, raw, genVars, decVars, lockVars, nfVars, moreVars>>

\* except Exception as e: raise OrnitelaFileProcessingError(...) around
\* the whole of _process_csv_file_streaming: the list built so far is lost.
StreamFailure(groups) == [raised |-> TRUE, groups |-> 0]

\* file_storage.stream_file raises instead of yielding the next chunk.
StreamFails ==
    /\ file_pc = "streaming"
    /\ unread > 0
    /\ act_faults' = act_faults \cup {"stream"}
    /\ LET r == StreamFailure(parsed)
       IN  IF r.raised
           THEN /\ file_pc' = "except"
                /\ act_result' = Exception("OrnitelaFileProcessingError")
                /\ UNCHANGED pending
           ELSE /\ file_pc' = "sending"
                /\ pending' = r.groups
                /\ UNCHANGED act_result
    /\ UNCHANGED <<unread, parsed, batches_sent, observations_sent>>
    /\ UNCHANGED <<act_file_name, act_lock, act_acquired, act_ops>>
    /\ UNCHANGED <<groupVars, raw, genVars, decVars, lockVars, nfVars, moreVars>>

\* send_observations_to_gundi raises inside the for loop of the try block.
OnSendError == "except"

\* A batch is pulled from the generator and its send fails.
SendFails ==
    /\ file_pc = "sending"
    /\ pending > 0
    /\ pending' = pending - Min(BatchSize, pending)
    /\ act_faults' = act_faults \cup {"delivery"}
    /\ file_pc' = OnSendError
    /\ act_result' = IF OnSendError = "except" THEN Exception("delivery")
                     ELSE act_result
    /\ UNCHANGED <<unread, parsed, batches_sent, observations_sent>>
    /\ UNCHANGED <<act_file_name, act_lock, act_acquired, act_ops>>
    /\ UNCHANGED <<groupVars, raw, genVars, decVars, lockVars, nfVars, moreVars>>

\* generate_gundi_observations raises while a batch is pulled from it
\* (timedelta(milliseconds=None) for a sample without milliseconds).
GeneratorFails ==
    /\ file_pc = "sending"
    /\ pending > 0
    /\ file_pc' = "except"
    /\ act_result' = Exception("TypeError")
    /\ UNCHANGED <<unread, parsed, pending, batches_sent, observations_sent>>
    /\ UNCHANGED <<act_file_name, act_lock, act_acquired, act_faults, act_ops>>
    /\ UNCHANGED <<groupVars, raw, genVars, decVars, lockVars, nfVars, moreVars>>

\* The bucket calls _handle_file_archiving_and_deletion makes for a file
\* of the given age, in order.
ArchivingCalls(days, archive_days, delete_after_archive_days) ==
    <<"get_file_metadata">> \o
    ( IF days >= archive_days
      THEN <<"download_file", "upload_file", "delete_file">>
      ELSE IF days >= delete_after_archive_days
           THEN <<"delete_archived_file">>
           ELSE <<>> )

\* result["archived"] and result["deleted"] are set after the last call of
\* their branch.
archive_result(done) ==
    [archived |-> \E k \in 1..Len(done) : done[k] = "delete_file",
     deleted  |-> \E k \in 1..Len(done) : done[k] = "delete_archived_file"]

\* The bucket calls of this invocation that succeeded.
StorageOps == SelectSeq(act_ops, LAMBDA op : op # "release_lock")

\* Variant: a failed bucket call of the archiving step reaches the
\* handler's except clause.
OnArchiveError_Raise == "except"

\* except Exception as e: logger.error(...) inside
\* _handle_file_archiving_and_deletion: the handler goes on to its summary.
OnArchiveError == "log_success"

\* _handle_file_archiving_and_deletion after the last batch: the first
\* ok calls succeed, the next one fails and is logged; it never raises.
ArchiveFile ==
    /\ file_pc = "sending"
    /\ pending = 0
    /\ \E days, archive_days, delete_after_archive_days \in 0..MaxDays :
       \E ok \in 0..4 :
         LET calls == ArchivingCalls(days, archive_days,
                                     delete_after_archive_days)
         IN  /\ act_ops' = act_ops \o SubSeq(calls, 1, Min(ok, Len(calls)))
             /\ act_faults' = IF ok < Len(calls)
                              THEN act_faults \cup {"archiving"}
                              ELSE act_faults
             /\ file_pc' = IF ok < Len(calls) THEN OnArchiveError
                           ELSE "log_success"
             /\ act_result' = IF ok < Len(calls) /\ OnArchiveError = "except"
                              THEN Exception("archiving") ELSE act_result
    /\ UNCHANGED <<unread, parsed, pending, batches_sent, observations_sent>>
    /\ UNCHANGED <<act_file_name, act_lock, act_acquired>>
    /\ UNCHANGED <<groupVars, raw, genVars, decVars, lockVars, nfVars, moreVars>>

\* The summary is logged, the lock released and the success result
\* returned.
LogSuccess ==
    /\ file_pc = "log_success"
    /\ \E log_ok, redis_ok \in BOOLEAN :
         IF log_ok
         THEN /\ file_pc' = "returned"
              /\ act_lock' = release_lock(act_lock, redis_ok)
              /\ act_result' =
                    [status |-> "success",
                     file_name |-> act_file_name,
                     telemetry_records |-> parsed,
                     observations_sent |-> observations_sent,
                     archived |-> archive_result(StorageOps).archived,
                     deleted |-> archive_result(StorageOps).deleted]
              /\ act_ops' = Append(act_ops, "release_lock")
              /\ act_faults' = IF redis_ok THEN act_faults
                               ELSE act_faults \cup {"lock"}
         ELSE /\ file_pc' = "except"
              /\ act_result' = Exception("activity_log")
              /\ act_faults' = act_faults \cup {"activity_log"}
              /\ UNCHANGED <<act_lock, act_ops>>
    /\ UNCHANGED <<act_file_name, act_acquired>>
    /\ UNCHANGED <<unread, parsed, pending, batches_sent, observations_sent>>
    /\ UNCHANGED <<groupVars, raw, genVars, decVars, lockVars, nfVars, moreVars>>

\* except Exception as e: the error is logged, then the lock is released
\* and the error result returned.  A failure of the log call leaves the
\* handler as an exception, before release_lock.
ExceptHandler ==
    /\ file_pc = "except"
    /\ \E log_ok, redis_ok \in BOOLEAN :
         IF log_ok
         THEN /\ file_pc' = "returned"
              /\ act_lock' = release_lock(act_lock, redis_ok)
              /\ act_ops' = Append(act_ops, "release_lock")
              /\ act_result' = [status |-> "error",
                                file_name |-> act_file_name,
                                error |-> act_result.error]
              /\ act_faults' = IF redis_ok THEN act_faults
                               ELSE act_faults \cup {"lock"}
         ELSE /\ file_pc' = "raised"
              /\ act_result' = Exception("activity_log")
              /\ act_faults' = act_faults \cup {"activity_log"}
              /\ UNCHANGED <<act_lock, act_ops>>
    /\ UNCHANGED <<act_file_name, act_acquired>>
    /\ UNCHANGED <<unread, parsed, pending, batches_sent, observations_sent>>
    /\ UNCHANGED <<groupVars, raw, genVars, decVars, lockVars, nfVars, moreVars>>

NextAction ==
    \/ AcquireLock
    \/ LogLocked
    \/ CheckFile
    \/ LogNonCsv
    \/ ReadChunk
    \/ StreamFails
    \/ ReturnGroups
    \/ SendBatch
    \/ SendFails
    \/ GeneratorFails
    \/ ArchiveFile
    \/ LogSuccess
    \/ ExceptHandler

SpecAction == InitAction /\ [][NextAction]_vars

\* C23: the handler never leaves by an exception, whichever collaborator
\* fails, and the result it returns has status success, skipped or error,
\* the file name and, when skipped or error, the cause.
C23_NeverRaisesPastHandler ==
    /\ file_pc # "raised"
    /\ file_pc = "returned" =>
         /\ act_result.status \in {"success", "skipped", "error"}
         /\ act_result.file_name = act_file_name
         /\ act_result.status = "skipped" => "reason" \in DOMAIN act_result
         /\ act_result.status = "error" => "error" \in DOMAIN act_result

\* The file name of the invocation does not end in ".csv".
NotCsvName ==
    ~(Len(act_file_name) > 1 /\ act_file_name[Len(act_file_name)] = "csv")

\* Nothing of the file was streamed, no batch was sent and the bucket was
\* not changed.
FileUntouched ==
    /\ parsed = 0
    /\ batches_sent = 0
    /\ observations_sent = 0
    /\ \A k \in 1..Len(act_ops) : act_ops[k] = "release_lock"

NotCsvResult ==
    [status |-> "skipped", reason |-> "Not a CSV file",
     file_name |-> act_file_name]

Ended == file_pc \in {"returned", "raised"}

\* C27: when the send of a batch has failed the handler reports status
\* error with the cause, never success; no further batch is sent and the
\* file is neither archived nor deleted.
C27_SendFailureReportedAsError ==
    /\ []( "delivery" \in act_faults =>
             /\ Ended => ( /\ file_pc = "returned"
                           /\ act_result.status = "error"
                           /\ act_result.file_name = act_file_name
                           /\ act_result.error = "delivery" )
             /\ \A k \in 1..Len(act_ops) : act_ops[k] = "release_lock" )
    /\ [][ "delivery" \in act_faults =>
             /\ batches_sent' = batches_sent
             /\ observations_sent' = observations_sent ]_vars

\* C28: when the chunk source has failed in mid-stream no list of groups
\* is handed over, the failure is OrnitelaFileProcessingError, no
\* observation is sent and the handler returns status error.
C28_StreamFailureReportedAsError ==
    "stream" \in act_faults =>
        /\ pending = 0
        /\ batches_sent = 0
        /\ observations_sent = 0
        /\ file_pc \in {"except", "returned", "raised"}
        /\ file_pc = "except" =>
             act_result = Exception("OrnitelaFileProcessingError")
        /\ Ended => ( /\ file_pc = "returned"
                      /\ act_result.status = "error"
                      /\ act_result.error = "OrnitelaFileProcessingError" )

\* The position of the first call named c among the bucket calls that
\* went through, 0 when there is none.
FirstCall(c) ==
    IF \E k \in DOMAIN act_ops : act_ops[k] = c
    THEN CHOOSE k \in DOMAIN act_ops :
             act_ops[k] = c /\ \A j \in 1..(k - 1) : act_ops[j] # c
    ELSE 0

\* A bucket call of the archiving step has gone through or failed.
ArchivingStarted ==
    \/ \E k \in DOMAIN act_ops : act_ops[k] # "release_lock"
    \/ "archiving" \in act_faults

\* C38: the bucket is touched only once every event of the file has been
\* sent and no send has failed; the original is deleted only after the
\* upload of its copy has gone through; and when a call of the archiving
\* step fails the handler still returns status success, unless the activity
\* log fails afterwards.
C38_ArchivingAfterDeliveryNeverFailsAttempt ==
    /\ ArchivingStarted =>
          /\ pending = 0
          /\ observations_sent = parsed
          /\ act_faults \cap {"delivery", "stream"} = {}
    /\ FirstCall("delete_file") > 0 =>
          /\ FirstCall("upload_file") > 0
          /\ FirstCall("upload_file") < FirstCall("delete_file")
    /\ ( /\ "archiving" \in act_faults
         /\ "activity_log" \notin act_faults ) =>
          /\ file_pc \in {"log_success", "returned"}
          /\ file_pc = "returned" => act_result.status = "success"

\* Two batches' worth of events were sent, the upload of the copy failed,
\* the original was not deleted, and the handler returned success with
\* archived false.
C38_Witness ==
    /\ file_pc = "returned"
    /\ observations_sent > 0
    /\ "archiving" \in act_faults
    /\ act_ops = <<"get_file_metadata", "download_file", "release_lock">>
    /\ act_result.status = "success"
    /\ ~act_result.archived

\* The number of release_lock calls of the invocation.
Releases == Len(SelectSeq(act_ops, LAMBDA op : op = "release_lock"))

\* C36: an invocation that acquired the lock has called release_lock
\* exactly once when it ends, whichever way it ends.
C36_LockReleasedExactlyOnce ==
    (Ended /\ act_acquired) => Releases = 1

\* C37: when acquire_lock returned False the handler returns status
\* skipped; it does not stream the file, send observations or archive, and
\* it neither calls release_lock nor changes the lock.
C37_LockedFileSkippedUntouched ==
    /\ []( ~act_acquired =>
             /\ parsed = 0 /\ batches_sent = 0 /\ observations_sent = 0
             /\ act_ops = <<>> )
    /\ [][ ~act_acquired' => act_lock' = act_lock /\ unread' = unread ]_vars
    /\ []( (Ended /\ ~act_acquired) =>
             /\ file_pc = "returned"
             /\ act_result.status = "skipped"
             /\ act_result.file_name = act_file_name )

-----------------------------------------------------------------------------
(* FileProcessingLockManager for one integration and one file name, used   *)
(* by concurrent invocations of action_process_ornitela_file.  The lock is *)
(* a Redis key without an owner's token: lk_owner records which invocation *)
(* created the key (0: no key), lk_ttl the seconds the key has left.       *)

NumAttempts == 3
MaxCrashes  == 1

Attempts == 1..NumAttempts

\* self.lock_timeout = 3600
lock_timeout == 3600

\* The step of the clock.
TickSeconds == 1800

\* Variant: the key is set without ex=, it never expires.
KeyExpires_Never(ttl) == FALSE

\* Redis removes a key set with ex= when its time has run out.
KeyExpires(ttl) == ttl <= 0

\* Invocations between a successful acquire_lock and their release_lock.
InFlight == {p \in Attempts : lk_pc[p] \in {"processing", "releasing"}}

Crashed == {p \in Attempts : lk_pc[p] = "crashed"}

InitLock ==
    /\ GroupIdle /\ GenIdle /\ DecIdle /\ FileIdle /\ ActIdle /\ NfIdle
    /\ MoreIdle
    /\ lk_pc = [p \in Attempts |-> "idle"]
    /\ lk_owner = 0
    /\ lk_ttl = 0

\* acquire_lock returns True: SET key "locked" EX lock_timeout NX found
\* no key.
AcquireOk(p) ==
    /\ lk_pc[p] = "idle"
    /\ lk_owner = 0
    /\ lk_owner' = p
    /\ lk_ttl' = lock_timeout
    /\ lk_pc' = [lk_pc EXCEPT ![p] = "processing"]
    /\ UNCHANGED <<groupVars, raw, genVars, decVars, fileVars, actVars,
                   nfVars, moreVars>>

\* acquire_lock returns False: the key exists, or Redis failed.
AcquireFails(p) ==
    /\ lk_pc[p] = "idle"
    /\ lk_pc' = [lk_pc EXCEPT ![p] = "skipped"]
    /\ UNCHANGED <<lk_owner, lk_ttl>>
    /\ UNCHANGED <<groupVars, raw, genVars, decVars, fileVars, actVars,
                   nfVars, moreVars>>

\* The skipped result is returned; the schedule may start the invocation
\* again.
ReturnSkipped(p) ==
    /\ lk_pc[p] = "skipped"
    /\ lk_pc' = [lk_pc EXCEPT ![p] = "idle"]
    /\ UNCHANGED <<lk_owner, lk_ttl>>
    /\ UNCHANGED <<groupVars, raw, genVars, decVars, fileVars, actVars,
                   nfVars, moreVars>>

\* The work between acquire_lock and release_lock is over.
FinishWork(p) ==
    /\ lk_pc[p] = "processing"
    /\ lk_pc' = [lk_pc EXCEPT ![p] = "releasing"]
    /\ UNCHANGED <<lk_owner, lk_ttl>>
    /\ UNCHANGED <<groupVars, raw, genVars, decVars, fileVars, actVars,
                   nfVars, moreVars>>

\* release_lock: DEL key, whoever created it; nothing changes when Redis
\* fails.  The handler returns.
ReleaseLock(p) ==
    /\ lk_pc[p] = "releasing"
    /\ \E redis_ok \in BOOLEAN :
         IF redis_ok
         THEN lk_owner' = 0 /\ lk_ttl' = 0
         ELSE UNCHANGED <<lk_owner, lk_ttl>>
    /\ lk_pc' = [lk_pc EXCEPT ![p] = "idle"]
    /\ UNCHANGED <<groupVars, raw, genVars, decVars, fileVars, actVars,
                   nfVars, moreVars>>

\* The invocation stops without release_lock: the process dies, or an
\* exception leaves the handler.
Crash(p) ==
    /\ lk_pc[p] = "processing"
    /\ Cardinality(Crashed) < MaxCrashes
    /\ lk_pc' = [lk_pc EXCEPT ![p] = "crashed"]
    /\ UNCHANGED <<lk_owner, lk_ttl>>
    /\ UNCHANGED <<groupVars, raw, genVars, decVars, fileVars, actVars,
                   nfVars, moreVars>>

\* Time passes for the key.
Tick ==
    /\ lk_owner # 0
    /\ LET left == lk_ttl - TickSeconds
       IN  IF KeyExpires(left)
           THEN lk_owner' = 0 /\ lk_ttl' = 0
           ELSE /\ lk_ttl' = (IF left > 0 THEN left ELSE lk_ttl)
                /\ UNCHANGED lk_owner
    /\ UNCHANGED lk_pc
    /\ UNCHANGED <<groupVars, raw, genVars, decVars, fileVars, actVars,
                   nfVars, moreVars>>

NextLock ==
    \/ \E p \in Attempts : AcquireOk(p)
    \/ \E p \in Attempts : AcquireFails(p)
    \/ \E p \in Attempts : ReturnSkipped(p)
    \/ \E p \in Attempts : FinishWork(p)
    \/ \E p \in Attempts : ReleaseLock(p)
    \/ \E p \in Attempts : Crash(p)
    \/ Tick

SpecLock == InitLock /\ [][NextLock]_vars

\* The key's time passes, an invocation that runs goes on, and Redis does
\* not fail every acquire_lock of an invocation the schedule starts again
\* and again.
SpecLockFair ==
    /\ SpecLock
    /\ WF_vars(Tick)
    /\ \A p \in Attempts :
         /\ SF_vars(AcquireOk(p))
         /\ WF_vars(ReturnSkipped(p))
         /\ WF_vars(FinishWork(p))
         /\ WF_vars(ReleaseLock(p))

\* C24: no two invocations for the same file are between a successful
\* acquire_lock and their release_lock at once.
C24_AtMostOneInFlight == Cardinality(InFlight) <= 1

\* C25: when the invocation that created the key has stopped without
\* release_lock, a later acquire_lock by another invocation eventually
\* succeeds.
C25_CrashedHolderDoesNotBlock ==
    \A p \in Attempts :
        (lk_pc[p] = "crashed" /\ lk_owner = p)
            ~> (\E q \in Attempts \ {p} : lk_owner = q)

\* An invocation crashed holding the key and another one holds it now.
C25_Witness ==
    \E p \in Attempts :
        /\ lk_pc # <<>>
        /\ lk_pc[p] = "crashed"
        /\ \E q \in Attempts \ {p} :
             lk_owner = q /\ lk_pc[q] = "processing"

-----------------------------------------------------------------------------
(* One run of action_process_new_files.  A file name is the sequence of    *)
(* its "/"-separated segments: "archive/a.csv" is <<"archive", "a.csv">>   *)
(* and a name ending in "/" has the empty string as its last segment.      *)
(* file_list is what list_files returned, processed_files what get_state   *)
(* returned.                                                               *)

MaxListed == 3

ListedNames ==
    { <<"a.csv">>, <<"b.csv">>, <<"sub", "">>, <<"archive", "a.csv">>,
      <<"archive">>, <<"archived", "a.csv">> }

\* file_name.endswith("/")
EndsWithSlash(file_name) ==
    Len(file_name) >= 2 /\ file_name[Len(file_name)] = ""

\* Variant: no name is taken to lie in the archive folder.
StartsWithArchive_Never(file_name) == FALSE

\* file_name.startswith("archive/")
StartsWithArchive(file_name) ==
    Len(file_name) >= 2 /\ file_name[1] = "archive"

InitNewFiles ==
    /\ GroupIdle /\ GenIdle /\ DecIdle /\ FileIdle /\ ActIdle /\ LockIdle
    /\ MoreIdle
    /\ nf_pc = "start"
    /\ processed_files \in SUBSET {<<"a.csv">>, <<"archive", "a.csv">>}
    /\ file_list \in SeqsUpTo(ListedNames, MaxListed)
    /\ nf_i = 0
    /\ new_files = <<>>
    /\ nf_attempted = <<>>
    /\ nf_triggered = <<>>
    /\ nf_written = <<>>
    /\ nf_result = NoResult

\* A call of the storage service, and whether it went through.
Call(name, ok) == [call |-> name, ok |-> ok]

\* The calls made before the classifying loop, up to the one that fails.
StartCalls(fail) ==
    LET order == <<"storage", "get_state", "list_files">>
        name  == [storage |-> "CloudFileStorage", get_state |-> "get_state",
                  list_files |-> "list_files"]
        last  == IF fail = "none" THEN 3
                 ELSE CHOOSE k \in 1..3 : order[k] = fail
    IN  [k \in 1..last |-> Call(name[order[k]], order[k] # fail)]

\* Variant: a failure before the listing is passed over.
StartFailure_Ignored(fail) == "none"

\* An exception of CloudFileStorage(...), get_state or list_files leaves
\* the try block.
StartFailure(fail) == fail

\* CloudFileStorage(...), get_state and list_files; a failure of any of
\* them ends the run in the outer except clause, with its message.
NfStart ==
    /\ nf_pc = "start"
    /\ \E fail \in {"none", "storage", "get_state", "list_files"} :
         /\ IF StartFailure(fail) = "none"
            THEN /\ nf_pc' = "classify"
                 /\ UNCHANGED nf_result
            ELSE /\ nf_pc' = "returned"
                 /\ nf_result' = [status |-> "error", error |-> fail]
         /\ nf_ops' = nf_ops \o StartCalls(fail)
    /\ UNCHANGED <<processed_files, file_list, nf_i, new_files, nf_attempted,
                   nf_triggered, nf_written>>
    /\ UNCHANGED <<nf_run, nf_queue, nf_delivered>>
    /\ UNCHANGED <<groupVars, raw, genVars, decVars, fileVars, actVars,
                   lockVars, bucketVars, twiceVars>>

\* for file_name in file_list: one name is looked at.  Its metadata are
\* read unless the name is skipped; when that fails the size and date
\* noted with the name are defaults.  After the last name the trigger
\* loop starts.
NfClassify ==
    /\ nf_pc = "classify"
    /\ IF nf_i < Len(file_list)
       THEN LET file_name == file_list[nf_i + 1]
            IN  /\ nf_i' = nf_i + 1
                /\ IF \/ EndsWithSlash(file_name)
                      \/ StartsWithArchive(file_name)
                   THEN UNCHANGED <<new_files, nf_ops>>
                   ELSE /\ \E ok \in BOOLEAN :
                             nf_ops' = Append(nf_ops,
                                              Call("get_file_metadata", ok))
                        /\ new_files' =
                              IF file_name \in processed_files
                              THEN new_files
                              ELSE Append(new_files, file_name)
                /\ UNCHANGED nf_pc
       ELSE /\ nf_pc' = "trigger"
            /\ nf_i' = 0
            /\ UNCHANGED <<new_files, nf_ops>>
    /\ UNCHANGED <<processed_files, file_list, nf_attempted, nf_triggered,
                   nf_written, nf_result>>
    /\ UNCHANGED <<nf_run, nf_queue, nf_delivered>>
    /\ UNCHANGED <<groupVars, raw, genVars, decVars, fileVars, actVars,
                   lockVars, bucketVars, twiceVars>>

\* Variant: a failed trigger ends the loop.
OnTriggerError_Break(n, i) == n

\* except Exception: ... continue -- the loop goes on with the next file.
OnTriggerError(n, i) == i + 1

\* for file_info in new_files: trigger_action for one file, which puts
\* the single-file action in the queue; a failure is logged and the loop
\* goes on.
NfTrigger ==
    /\ nf_pc = "trigger"
    /\ IF nf_i < Len(new_files)
       THEN /\ nf_attempted' = Append(nf_attempted, new_files[nf_i + 1])
            /\ \E ok \in BOOLEAN :
                 IF ok
                 THEN /\ nf_triggered' = Append(nf_triggered,
                                                new_files[nf_i + 1])
                      /\ nf_queue' = Append(nf_queue, new_files[nf_i + 1])
                      /\ nf_i' = nf_i + 1
                 ELSE /\ nf_i' = OnTriggerError(Len(new_files), nf_i)
                      /\ UNCHANGED <<nf_triggered, nf_queue>>
            /\ UNCHANGED nf_pc
       ELSE /\ nf_pc' = "save"
            /\ UNCHANGED <<nf_i, nf_attempted, nf_triggered, nf_queue>>
    /\ UNCHANGED <<processed_files, file_list, new_files, nf_written,
                   nf_result>>
    /\ UNCHANGED <<nf_run, nf_delivered, nf_ops>>
    /\ UNCHANGED <<groupVars, raw, genVars, decVars, fileVars, actVars,
                   lockVars, bucketVars, twiceVars>>

\* Variant: the run deletes the listed files itself.
RunArchivingCalls_PerFile(files) ==
    [k \in 1..Len(files) |-> Call("delete_file", TRUE)]

\* "Archive and delete logic is now handled in the process_ornitela_file
\* action": between the trigger loop and set_state the run makes no
\* storage call.
RunArchivingCalls(files) == <<>>

\* set_state with the processed files as they were read, then the success
\* result; a failure of set_state gives the error result.
NfSave ==
    /\ nf_pc = "save"
    /\ \E ok \in BOOLEAN :
         /\ nf_ops' = nf_ops \o RunArchivingCalls(file_list)
                             \o <<Call("set_state", ok)>>
         /\ IF ok
            THEN /\ nf_written' =
                       <<[processed_files |-> processed_files,
                          last_subactions_triggered |-> Len(nf_triggered),
                          last_archived_count |-> 0,
                          last_deleted_count |-> 0]>>
                 /\ nf_result' =
                       [status |-> "success",
                        new_files_found |-> Len(new_files),
                        subactions_triggered |-> Len(nf_triggered),
                        files_archived |-> 0,
                        files_deleted |-> 0,
                        total_processed_files |-> Cardinality(processed_files)]
            ELSE /\ nf_result' = [status |-> "error", error |-> "set_state"]
                 /\ UNCHANGED nf_written
    /\ nf_pc' = "returned"
    /\ UNCHANGED <<processed_files, file_list, nf_i, new_files, nf_attempted,
                   nf_triggered>>
    /\ UNCHANGED <<nf_run, nf_queue, nf_delivered>>
    /\ UNCHANGED <<groupVars, raw, genVars, decVars, fileVars, actVars,
                   lockVars, bucketVars, twiceVars>>

NextNewFiles == NfStart \/ NfClassify \/ NfTrigger \/ NfSave

SpecNewFiles == InitNewFiles /\ [][NextNewFiles]_vars

\* A listed name that is to be processed: not in the processed set as it
\* was read, not ending in "/" and not under archive/.
IsNewFile(name) ==
    /\ name \notin processed_files
    /\ name[Len(name)] # ""
    /\ ~(Len(name) > 1 /\ name[1] = "archive")

\* The classifying loop is over and the run did not fail before it.
Classified ==
    \/ nf_pc \in {"trigger", "save"}
    \/ /\ nf_pc = "returned"
       /\ \/ nf_result.status = "success"
          \/ nf_result = [status |-> "error", error |-> "set_state"]

\* The trigger loop is over.
TriggersDone ==
    \/ nf_pc = "save"
    \/ nf_pc = "returned" /\ Classified

\* s is t with some entries left out.
RECURSIVE IsSubSeq(_, _)
IsSubSeq(s, t) ==
    IF s = <<>> THEN TRUE
    ELSE IF t = <<>> THEN FALSE
    ELSE IF Head(s) = Head(t) THEN IsSubSeq(Tail(s), Tail(t))
    ELSE IsSubSeq(s, Tail(t))

\* C30: the new files are exactly the listed entries that are not in the
\* processed set, do not end in "/" and are not under archive/, in the
\* order of the listing; the single-file action is triggered once for each
\* of them, in order; new_files_found is their number and
\* subactions_triggered, the number of triggers that went through, never
\* exceeds it.
C30_NewFilesClassifiedAndTriggeredOnce ==
    /\ Classified => new_files = SelectSeq(file_list, IsNewFile)
    /\ TriggersDone => nf_attempted = new_files
    /\ IsSubSeq(nf_triggered, nf_attempted)
    /\ IsSubSeq(nf_attempted, new_files)
    /\ nf_result.status = "success" =>
         /\ nf_result.new_files_found
               = Len(SelectSeq(file_list, IsNewFile))
         /\ nf_result.subactions_triggered = Len(nf_triggered)
         /\ nf_result.subactions_triggered <= nf_result.new_files_found

\* Of the listing archive/a.csv, a.csv, b.csv with a.csv processed, b.csv
\* alone was new and was triggered.
C30_Witness ==
    /\ nf_pc = "returned"
    /\ file_list = << <<"archive", "a.csv">>, <<"a.csv">>, <<"b.csv">> >>
    /\ processed_files = { <<"a.csv">> }
    /\ nf_triggered = << <<"b.csv">> >>
    /\ nf_result.status = "success"
    /\ nf_result.new_files_found = 1

\* The storage calls that move or remove a blob.
MovesOrRemoves(call) ==
    call \in {"download_file", "upload_file", "delete_file"}

\* C33: a run of action_process_new_files makes no download, upload or
\* delete call on storage, and a run that succeeds reports files_archived = 0
\* and files_deleted = 0, whatever the listing and the processed set.
C33_RunNeverArchivesOrDeletes ==
    /\ \A k \in DOMAIN nf_ops : ~MovesOrRemoves(nf_ops[k].call)
    /\ nf_result.status = "success" =>
          nf_result.files_archived = 0 /\ nf_result.files_deleted = 0

\* A run over a.csv, already processed, and its archived copy has returned
\* success after listing and reading the metadata of a.csv.
C33_Witness ==
    /\ nf_pc = "returned"
    /\ nf_result.status = "success"
    /\ file_list = << <<"a.csv">>, <<"archive", "a.csv">> >>
    /\ processed_files = { <<"a.csv">>, <<"archive", "a.csv">> }
    /\ \E k \in DOMAIN nf_ops : nf_ops[k] = Call("get_file_metadata", TRUE)

\* One of the calls made before the classifying loop failed.
StartCallFailed ==
    \E k \in DOMAIN nf_ops :
        /\ nf_ops[k].call \in {"CloudFileStorage", "get_state", "list_files"}
        /\ ~nf_ops[k].ok

\* What str(e) is for the failure of a call.
MessageOf(call) ==
    IF call = "CloudFileStorage" THEN "storage" ELSE call

\* C34: when creating the storage client, get_state or list_files fails,
\* the run ends with status error and that failure's message, triggers no
\* single-file action and does not write the state.
C34_StartFailureReturnsError ==
    StartCallFailed =>
        /\ nf_pc = "returned"
        /\ nf_result.status = "error"
        /\ \E k \in DOMAIN nf_ops :
              ~nf_ops[k].ok /\ nf_result.error = MessageOf(nf_ops[k].call)
        /\ nf_attempted = <<>> /\ nf_triggered = <<>> /\ nf_queue = <<>>
        /\ nf_written = <<>>

\* get_state failed for a listing that holds a new file: the run returned
\* the error.
C34_Witness ==
    /\ nf_pc = "returned"
    /\ nf_ops = <<Call("CloudFileStorage", TRUE), Call("get_state", FALSE)>>
    /\ file_list = << <<"b.csv">> >>
    /\ nf_result = [status |-> "error", error |-> "get_state"]

\* The call went through.
CallOk(call) == \E k \in DOMAIN nf_ops : nf_ops[k] = [call |-> call, ok |-> TRUE]

\* C39: whichever metadata reads and triggers fail, every new file is
\* attempted, a run that got past the listing calls set_state, and when
\* set_state goes through the run returns success, has written the state,
\* and reports as subactions_triggered the number of single-file actions it
\* put in the queue.
C39_OneFileFailureDoesNotAffectOthers ==
    /\ TriggersDone => nf_attempted = SelectSeq(file_list, IsNewFile)
    /\ nf_pc = "returned" /\ CallOk("list_files") =>
          \E k \in DOMAIN nf_ops : nf_ops[k].call = "set_state"
    /\ nf_pc = "returned" /\ CallOk("set_state") =>
          /\ nf_result.status = "success"
          /\ nf_result.subactions_triggered = Len(nf_queue)
          /\ nf_written # <<>>

\* The metadata of a.csv could not be read and its trigger failed; b.csv
\* was triggered all the same and the run returned success with one
\* subaction.
C39_Witness ==
    /\ nf_pc = "returned"
    /\ file_list = << <<"a.csv">>, <<"b.csv">> >>
    /\ processed_files = {}
    /\ \E k \in DOMAIN nf_ops : nf_ops[k] = Call("get_file_metadata", FALSE)
    /\ nf_queue = << <<"b.csv">> >>
    /\ nf_result.status = "success"
    /\ nf_result.subactions_triggered = 1

-----------------------------------------------------------------------------
(* Successive runs of action_process_new_files over a listing that stays   *)
(* the same, with the single-file actions they trigger.  The state read by *)
(* get_state at the start of a run is the one the last set_state wrote.    *)

MaxRuns == 2

RunListings ==
    { << <<"a.csv">> >>, << <<"a.csv">>, <<"b.csv">> >>,
      << <<"archive", "a.csv">>, <<"b.csv">> >> }

InitRuns ==
    /\ GroupIdle /\ GenIdle /\ DecIdle /\ FileIdle /\ ActIdle /\ LockIdle
    /\ BucketIdle /\ TwiceIdle
    /\ nf_pc = "start"
    /\ processed_files \in SUBSET {<<"b.csv">>}
    /\ file_list \in RunListings
    /\ nf_i = 0
    /\ new_files = <<>>
    /\ nf_attempted = <<>>
    /\ nf_triggered = <<>>
    /\ nf_written = <<>>
    /\ nf_result = NoResult
    /\ nf_run = 1
    /\ nf_queue = <<>>
    /\ nf_delivered = <<>>
    /\ nf_ops = <<>>

\* state_manager.get_state: the dictionary of the last set_state, or the
\* one the run before read when none was written.
get_state == IF nf_written = <<>> THEN processed_files
             ELSE nf_written[Len(nf_written)].processed_files

\* A triggered action_process_ornitela_file runs for the file at the head
\* of the queue.  When it returns success all events of the file have been
\* sent; it reads and writes no state of process_new_files.
ProcessFile ==
    /\ nf_queue # <<>>
    /\ nf_queue' = Tail(nf_queue)
    /\ \E status \in {"success", "skipped", "error"} :
         nf_delivered' =
            IF status = "success"
            THEN Append(nf_delivered,
                        [name |-> Head(nf_queue), run |-> nf_run])
            ELSE nf_delivered
    /\ UNCHANGED <<nf_run, nf_ops>>
    /\ UNCHANGED nfVars
    /\ UNCHANGED <<groupVars, raw, genVars, decVars, fileVars, actVars,
                   lockVars, bucketVars, twiceVars>>

\* The schedule starts the next run.
NfNextRun ==
    /\ nf_pc = "returned"
    /\ nf_run < MaxRuns
    /\ nf_run' = nf_run + 1
    /\ nf_pc' = "start"
    /\ processed_files' = get_state
    /\ nf_i' = 0
    /\ new_files' = <<>>
    /\ nf_attempted' = <<>>
    /\ nf_triggered' = <<>>
    /\ nf_result' = NoResult
    /\ nf_ops' = <<>>
    /\ UNCHANGED <<file_list, nf_written, nf_queue, nf_delivered>>
    /\ UNCHANGED <<groupVars, raw, genVars, decVars, fileVars, actVars,
                   lockVars, bucketVars, twiceVars>>

NextRuns == NextNewFiles \/ ProcessFile \/ NfNextRun

SpecRuns == InitRuns /\ [][NextRuns]_vars

\* C31: a file whose events were delivered by a successful single-file
\* action is in the processed set; a run that starts after the delivery
\* does not classify it as new; no file is delivered twice.
C31_DeliveredFileNotProcessedAgain ==
    \A k \in DOMAIN nf_delivered :
        /\ nf_delivered[k].name \in get_state
        /\ nf_delivered[k].run < nf_run =>
              \A n \in DOMAIN new_files : new_files[n] # nf_delivered[k].name
        /\ \A m \in DOMAIN nf_delivered :
              nf_delivered[m].name = nf_delivered[k].name => m = k

-----------------------------------------------------------------------------
(* The life of one file, a.csv, in the bucket: the days pass, and every    *)
(* scheduled run of action_process_new_files lists the bucket and triggers *)
(* action_process_ornitela_file for the names it does not skip, which ends *)
(* in _handle_file_archiving_and_deletion.  The storage calls succeed      *)
(* whenever the blob they name exists.                                     *)

MaxAge == 5

\* list_files: the names of the blobs that exist.
Listing(b) ==
    (IF b.archive THEN << <<"archive", "a.csv">> >> ELSE <<>>)
    \o (IF b.original THEN << <<"a.csv">> >> ELSE <<>>)

\* The names of a listing the run triggers the single-file action for.
\* The processed set is empty.
TriggeredOf(listing) ==
    SelectSeq(listing,
              LAMBDA n : ~EndsWithSlash(n) /\ ~StartsWithArchive(n))

\* The number of calls, of those given, that go through, starting from
\* bucket b: the first call that names a missing blob fails, and the ones
\* after it are not made.
RECURSIVE Succeeding(_, _)
Succeeding(calls, b) ==
    IF calls = <<>> THEN 0
    ELSE LET call == Head(calls)
             possible ==
                 CASE call = "get_file_metadata"    -> b.original
                   [] call = "download_file"        -> b.original
                   [] call = "upload_file"          -> TRUE
                   [] call = "delete_file"          -> b.original
                   [] call = "delete_archived_file" -> b.archive
         IN  IF possible THEN 1 + Succeeding(Tail(calls), b) ELSE 0

\* The bucket after the calls that went through.
AfterCalls(done, b) ==
    LET has(c) == \E k \in 1..Len(done) : done[k] = c
    IN  [original    |-> b.original /\ ~has("delete_file"),
         archive     |-> (b.archive \/ has("upload_file"))
                            /\ ~has("delete_archived_file"),
         age         |-> b.age,
         archived_at |-> IF has("upload_file") THEN b.age
                         ELSE b.archived_at]

InitArchive ==
    /\ GroupIdle /\ GenIdle /\ DecIdle /\ FileIdle /\ ActIdle /\ LockIdle
    /\ NfIdle /\ RunIdle /\ TwiceIdle
    /\ bucket = [original |-> TRUE, archive |-> FALSE, age |-> 0,
                 archived_at |-> 0]
    /\ bk_config \in [archive_days : 0..MaxDays,
                      delete_after_archive_days : 0..MaxDays]
    /\ bk_last_run = 0

\* A day goes by.
DayPasses ==
    /\ bucket.age < MaxAge
    /\ bucket' = [bucket EXCEPT !.age = @ + 1]
    /\ UNCHANGED <<bk_config, bk_last_run>>
    /\ UNCHANGED <<groupVars, raw, genVars, decVars, fileVars, actVars,
                   lockVars, nfVars, runVars, twiceVars>>

\* A scheduled run on a day that has had none, with the single-file
\* action it triggers; days_since_created is the age of the original.
ScheduledRun ==
    /\ bk_last_run < bucket.age
    /\ bk_last_run' = bucket.age
    /\ IF TriggeredOf(Listing(bucket)) = <<>>
       THEN UNCHANGED bucket
       ELSE LET calls == ArchivingCalls(bucket.age, bk_config.archive_days,
                             bk_config.delete_after_archive_days)
                done  == SubSeq(calls, 1, Succeeding(calls, bucket))
            IN  bucket' = AfterCalls(done, bucket)
    /\ UNCHANGED bk_config
    /\ UNCHANGED <<groupVars, raw, genVars, decVars, fileVars, actVars,
                   lockVars, nfVars, runVars, twiceVars>>

NextArchive == DayPasses \/ ScheduledRun

SpecArchive == InitArchive /\ [][NextArchive]_vars

\* C32: a scheduled run that finds the archived copy of a file delete_after
\* days or more after it was archived removes it, so that an archived file
\* past its threshold is gone after the next run.
C32_ArchivedFileDeletedAfterThreshold ==
    [][ ( /\ bk_last_run' # bk_last_run
          /\ bucket.archive
          /\ bucket.age - bucket.archived_at
                >= bk_config.delete_after_archive_days )
        => ~bucket'.archive ]_vars

-----------------------------------------------------------------------------
(* Two calls, one after the other, of _process_csv_file_streaming on the   *)
(* same lines, or of generate_gundi_observations on the same list of       *)
(* groups with the same cutoff.  The second call starts when the first has  *)
(* ended; the consumer of the generator keeps every event it receives.     *)

MaxTwiceRows == 2

\* Groups of the kinds the generator tells apart: a fix within the cutoff
\* without readings, an old fix, a fix with an old and a recent reading,
\* and a fix with a reading whose milliseconds is None.
TwiceGroups ==
    LET reading(t, ms) == [timestamp |-> t, datatype |-> SenStart,
                           additional |-> [milliseconds |-> ms]]
        group(t, loc, rs) == [timestamp |-> t, location |-> loc,
                              additional |-> [datatype |-> GPS],
                              sensor_readings |-> rs]
    IN  { group(2, "A", <<>>),
          group(0, "B", <<reading(2, Some(0))>>),
          group(2, "B", <<reading(0, Some(1)), reading(2, Some(1))>>),
          group(2, "A", <<reading(2, NoneInt)>>) }

\* What both calls are given.
TwiceInputs ==
    { [kind |-> "lines", header |-> h, rows |-> rs, rest |-> b,
       groups |-> <<>>, cutoff |-> 0] :
          h \in BOOLEAN, rs \in SeqsUpTo(Line, MaxTwiceRows), b \in Line }
    \cup
    { [kind |-> "groups", header |-> FALSE, rows |-> <<>>,
       rest |-> BlankLine, groups |-> gs, cutoff |-> c] :
          gs \in SeqsUpTo(TwiceGroups, MaxGroups), c \in Cutoffs }

InitTwice ==
    /\ DecIdle /\ FileIdle /\ ActIdle /\ LockIdle /\ NfIdle
    /\ RunIdle /\ BucketIdle
    /\ tw_call = 1
    /\ tw_input \in TwiceInputs
    /\ tw_input.kind = "lines" => (tw_input.header \/ tw_input.rows = <<>>)
    /\ tw_out = <<>>
    /\ tw_first = <<>>
    /\ raw = <<>>
    /\ csv_reader = "None"
    /\ lines = <<>>
    /\ flushed = FALSE
    /\ telemetry_data = <<>>
    /\ current_gps_location = None
    /\ sensor_readings = <<>>
    /\ in_sensor_sequence = FALSE
    /\ pc = IF tw_input.kind = "lines" THEN "stream" ELSE "idle"
    /\ gen_pc = IF tw_input.kind = "groups" THEN "start" ELSE "idle"
    /\ gen_at = gen_pc
    /\ cutoff_time = 0
    /\ observation = NoObservation
    /\ gen_i = 0
    /\ gen_j = 0
    /\ emitted = <<>>
    /\ owed = 0

\* The file has a first terminated line.
TwiceReadHeader == ReadHeader /\ tw_input.header

\* The next line of the input is streamed.
TwiceStreamLine ==
    /\ Len(lines) < Len(tw_input.rows)
    /\ StreamLine
    /\ lines' = SubSeq(tw_input.rows, 1, Len(lines) + 1)

\* The stream ends with the unterminated remainder of the input.
TwiceFlushBuffer ==
    /\ (csv_reader # "None") = tw_input.header
    /\ Len(lines) = Len(tw_input.rows)
    /\ FlushBuffer
    /\ lines' = IF Strip(tw_input.rest) /\ csv_reader # "None"
                THEN Append(lines, tw_input.rest) ELSE lines

\* The consumer has kept the event the generator yielded last.
Received ==
    /\ tw_out # <<>>
    /\ emitted # <<>>
    /\ tw_out[Len(tw_out)] = emitted[Len(emitted)]

\* The consumer keeps the event just yielded.
Receive ==
    /\ gen_pc = "suspended"
    /\ ~Received
    /\ tw_out' = Append(tw_out, emitted[Len(emitted)])
    /\ UNCHANGED <<tw_call, tw_input, tw_first>>
    /\ UNCHANGED <<groupVars, raw, genVars, decVars, fileVars, actVars,
                   lockVars, nfVars, runVars, bucketVars>>

\* next(), with the cutoff of the input on the first call.
TwicePull ==
    /\ gen_pc = "suspended" => Received
    /\ Pull
    /\ cutoff_time' = tw_input.cutoff

\* The for loop takes the next group of the input.
TwiceForObservation ==
    /\ gen_i < Len(tw_input.groups)
    /\ ForObservation
    /\ observation' = tw_input.groups[gen_i + 1]

\* The input has no further group.
TwiceStopIteration ==
    /\ gen_i = Len(tw_input.groups)
    /\ StopIteration

\* Variant: the second call finds the locals as the first call left them.
LocalsAtEntry_LeftOver(left) == left

\* telemetry_data = [], current_gps_location = None, sensor_readings = [],
\* in_sensor_sequence = False at the top of every call.
LocalsAtEntry(left) == InitState

\* The first call has returned its list; the second call starts.
SecondParse ==
    /\ tw_call = 1
    /\ pc = "done"
    /\ tw_call' = 2
    /\ tw_first' = [groups |-> telemetry_data, events |-> <<>>,
                    end |-> "done"]
    /\ pc' = "stream"
    /\ csv_reader' = "None"
    /\ lines' = <<>>
    /\ flushed' = FALSE
    /\ SetState(LocalsAtEntry(CurState))
    /\ UNCHANGED <<tw_input, tw_out>>
    /\ UNCHANGED <<raw, genVars, decVars, fileVars, actVars, lockVars,
                   nfVars, runVars, bucketVars>>

\* Variant: the second generator goes on where the first one stopped in
\* the list.
IteratorAtEntry_Shared(left) == left

\* for observation in telemetry_data: a new iterator over the list for
\* every generator object.
IteratorAtEntry(left) == 0

\* The first generator has ended; a second one is created on the same list.
SecondGenerate ==
    /\ tw_call = 1
    /\ gen_pc \in {"exhausted", "raised"}
    /\ tw_call' = 2
    /\ tw_first' = [groups |-> <<>>, events |-> tw_out, end |-> gen_pc]
    /\ tw_out' = <<>>
    /\ gen_pc' = "start"
    /\ gen_at' = "start"
    /\ cutoff_time' = 0
    /\ observation' = NoObservation
    /\ gen_i' = IteratorAtEntry(gen_i)
    /\ gen_j' = 0
    /\ emitted' = <<>>
    /\ owed' = 0
    /\ UNCHANGED tw_input
    /\ UNCHANGED <<groupVars, raw, decVars, fileVars, actVars, lockVars,
                   nfVars, runVars, bucketVars>>

NextTwice ==
    \/ TwiceReadHeader
    \/ TwiceStreamLine
    \/ TwiceFlushBuffer
    \/ FinalObservation
    \/ SecondParse
    \/ TwicePull
    \/ Receive
    \/ TwiceForObservation
    \/ ForSensor
    \/ TwiceStopIteration
    \/ SecondGenerate

SpecTwice == InitTwice /\ [][NextTwice]_vars

C35_WitnessGenerate ==
    /\ tw_call = 2
    /\ gen_pc = "exhausted"
    /\ Len(tw_input.groups) = 2
    /\ Len(tw_out) = 3
    /\ tw_out[3].origin = <<2, 2>>
    /\ tw_first.events = tw_out

====
